----------------------------- MODULE MCGunrock ------------------------------
EXTENDS Gunrock

Page == <<"/", "page">>
Object == <<"/", "ds3", "/", "object">>

SomeRequests ==
  {[method |-> "PUT", path |-> Object], [method |-> "GET", path |-> Page],
   [method |-> "CONNECT", path |-> <<>>], [method |-> "HEAD", path |-> Object]}

Pages == {Page}
=============================================================================
