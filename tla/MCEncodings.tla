---------------------------- MODULE MCEncodings -----------------------------
(***************************************************************************)
(* Values around the borders of the encodings: bytes whose bits are cut    *)
(* differently by groups of six, every pattern of padding in two groups,   *)
(* and strings of the characters that mean something to a form.            *)
(***************************************************************************)
EXTENDS Encodings

SeqsUpTo(S, n) == UNION {[1 .. k -> S] : k \in 0 .. n}

MCDatas == SeqsUpTo({0, 1, 63, 64, 191, 255}, 4)
MCDigits == SeqsUpTo({5, 63, Pad}, 7) \cup SeqsUpTo({5, Pad, Invalid}, 5)

\* "a", a space, "%", "&", "=", and a character of eight bits.
MCStrings == SeqsUpTo({97, 32, Percent, Ampersand, Equals, 233}, 2)
MCDicts ==
  UNION {[{k} -> MCStrings] : k \in MCStrings}
    \cup UNION {[{<<97>>, k} -> SeqsUpTo({97, Equals}, 1)] : k \in SeqsUpTo({97, Percent, Ampersand}, 2)}

\* "a", "4", "&", "=", "%".
MCQueries == SeqsUpTo({97, 52, Ampersand, Equals, Percent}, 5)
=============================================================================
