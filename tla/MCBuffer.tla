------------------------------ MODULE MCBuffer -----------------------------
(* Buffer for TLC: types of one and two bytes, all short texts over a few  *)
(* characters and some long ones.                                          *)
EXTENDS Buffer
Swap == Permutations(Buffers)
IntTypes == {[bytes |-> 1, signed |-> TRUE], [bytes |-> 2, signed |-> FALSE]}
Numbers == {-201, -9, 101}
Contents == {<<6, 6, 1>>}
Delims == {<<6>>, <<6, 6>>}
Garbages == {0, 15}
HexChars == {1, 3, Invalid}
Base64Chars == {1, 6, Whitespace, Padding, Invalid}
AllHex == BoundedSeq(HexChars, 4) \cup {<<3, 1, 1, 0, 2, 2>>}
AllBase64 ==
  BoundedSeq(Base64Chars, 4) \cup
  {<<1, 2, 3, 4, 5>>, <<1, 6, Padding, 2, 5>>, <<7, 0, 6, 1, Whitespace, 5, 2, Padding>>, <<3, 1, Padding, 4, 5, 6, Padding>>}
=============================================================================
