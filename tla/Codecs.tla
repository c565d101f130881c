------------------------------- MODULE Codecs ------------------------------
(***************************************************************************)
(* faucet/HexCodec.hpp and faucet/Base64Codec.hpp.  Bits come in pairs:    *)
(* Quarter is 4 in the code, where a byte is four, a base64 character      *)
(* three and a hex digit two pairs of bits.  Any other radix keeps the     *)
(* structure of both encodings.  A character is the value the tables give  *)
(* it, or one of the classes below.                                        *)
(***************************************************************************)
EXTENDS Integers, Sequences

CONSTANTS
  Quarter,      \* 4: values of a pair of bits
  OutBuffer     \* 2048: bytes decoded between two writes

ASSUME CodecsAssumption == Quarter \in Nat \ {0, 1} /\ OutBuffer \in Nat \ {0}

(* What a loop over seq has made of start before and after each element.   *)
Loop(Step(_, _), start, seq) ==
  LET state[n \in 0..Len(seq)] ==
        IF n = 0 THEN start ELSE Step(state[n - 1], seq[n])
  IN  state

(* The number of values of n pairs of bits.                                *)
Quarters(n) ==
  LET values[i \in 0..n] == IF i = 0 THEN 1 ELSE values[i - 1] * Quarter
  IN  values[n]

Byte == 0..(Quarters(4) - 1)
Sextet == 0..(Quarters(3) - 1)      \* base64 characters
Nibble == 0..(Quarters(2) - 1)      \* hex digits

Whitespace == -1                    \* CR and LF
Padding == -2
Invalid == -3
Base64Char == Sextet \cup {Whitespace, Padding, Invalid}
HexChar == Nibble \cup {Invalid}
----------------------------------------------------------------------------
(* Decoded bytes go to a buffer of OutBuffer bytes, written when full.     *)
NoOutput == [written |-> <<>>, buffered |-> <<>>]
Put(out, byte) ==
  IF Len(out.buffered) + 1 = OutBuffer
  THEN [written |-> Append(out.written \o out.buffered, byte), buffered |-> <<>>]
  ELSE [out EXCEPT !.buffered = Append(@, byte)]
Flushed(out) == out.written \o out.buffered

HexEncode(bytes) ==
  [i \in 1..2 * Len(bytes) |->
    LET byte == bytes[(i + 1) \div 2]
    IN  IF i % 2 = 1 THEN byte \div Quarters(2) ELSE byte % Quarters(2)]

HexValid(text) ==
  /\ \A i \in DOMAIN text : text[i] \in Nibble
  /\ Len(text) % 2 = 0

HexBytes(text) ==
  [i \in 1..Len(text) \div 2 |-> text[2 * i - 1] * Quarters(2) + text[2 * i]]
HexDecode(text) == Flushed(Loop(Put, NoOutput, HexBytes(text))[Len(text) \div 2])
----------------------------------------------------------------------------
(* Base64Codec::encode: three bytes are four characters; one or two bytes  *)
(* left are padded.                                                        *)
Quad(a, b, c) ==
  LET all == (a * Quarters(4) + b) * Quarters(4) + c
  IN  [i \in 1..4 |-> (all \div Quarters(3 * (4 - i))) % Quarters(3)]

PaddedOneUnshifted(a) == <<a \div Quarter, a % Quarters(3), Padding, Padding>>
PaddedOne(a) == <<a \div Quarter, (a * Quarters(2)) % Quarters(3), Padding, Padding>>
PaddedTwo(a, b) ==
  LET both == a * Quarters(4) + b
  IN  <<both \div Quarters(5), (both \div Quarters(2)) % Quarters(3),
        (both * Quarter) % Quarters(3), Padding>>

Base64Encode(bytes) ==
  LET whole == Len(bytes) \div 3
      Quads == [q \in 1..whole |-> Quad(bytes[3 * q - 2], bytes[3 * q - 1], bytes[3 * q])]
      Padded == CASE Len(bytes) % 3 = 0 -> <<>>
                 [] Len(bytes) % 3 = 1 -> PaddedOne(bytes[3 * whole + 1])
                 [] Len(bytes) % 3 = 2 -> PaddedTwo(bytes[3 * whole + 1], bytes[3 * whole + 2])
  IN  [i \in 1..4 * whole |-> Quads[(i + 3) \div 4][((i + 3) % 4) + 1]] \o Padded

(* Base64Codec::validate.  It stops at the first character it refuses; the *)
(* "return -3" of a padding after one character is true to its caller.     *)
ScanStart == [verdict |-> "none", quadPos |-> 0]
ScanChar(scan, char) ==
  IF scan.verdict # "none" THEN scan ELSE
  CASE char \in Sextet -> [scan EXCEPT !.quadPos = (@ + 1) % 4]
    [] char = Whitespace -> scan
    [] char = Padding -> IF scan.quadPos = 1 THEN [scan EXCEPT !.verdict = "accepted"]
                         ELSE [scan EXCEPT !.quadPos = 0]
    [] char = Invalid -> [scan EXCEPT !.verdict = "refused"]
Base64Valid(text) == Loop(ScanChar, ScanStart, text)[Len(text)].verdict # "refused"

(* Base64Codec::writeBase64: bitBuffer has 16 bits, and a padding ends the *)
(* bits of a block.  Characters it does not know pass without effect.      *)
DecodeStart == [bits |-> 0, count |-> 0, out |-> NoOutput]
DecodeChar(state, char) ==
  CASE char \in Sextet ->
         LET bits == (state.bits * Quarters(3) + char) % Quarters(8)
             full == state.count + 3 >= 4
         IN  [bits |-> bits,
              count |-> IF full THEN state.count - 1 ELSE state.count + 3,
              out |-> IF full
                      THEN Put(state.out, (bits \div Quarters(state.count - 1)) % Quarters(4))
                      ELSE state.out]
    [] char = Padding -> [state EXCEPT !.count = 0]
    [] OTHER -> state
Base64Decode(text) == Flushed(Loop(DecodeChar, DecodeStart, text)[Len(text)].out)
----------------------------------------------------------------------------
(* Reference: a text stands for pairs of bits, taken together in fours.    *)
Pairs(seq, each) ==
  [i \in 1..Len(seq) * each |->
    (seq[(i - 1) \div each + 1] \div Quarters(each - 1 - ((i - 1) % each))) % Quarter]
Fours(pairs) ==
  [i \in 1..Len(pairs) \div 4 |->
    ((pairs[4 * i - 3] * Quarter + pairs[4 * i - 2]) * Quarter + pairs[4 * i - 1]) * Quarter
      + pairs[4 * i]]
BytesOf(seq, each) == Fours(Pairs(seq, each))

(* The base64 characters of each stretch between two paddings.             *)
AddToBlocks(blocks, char) ==
  CASE char = Padding -> Append(blocks, <<>>)
    [] char \in Sextet -> [blocks EXCEPT ![Len(blocks)] = Append(@, char)]
    [] OTHER -> blocks
Blocks(text) == Loop(AddToBlocks, << <<>> >>, text)[Len(text)]

AddBytes(bytes, block) == bytes \o BytesOf(block, 3)
Base64Meaning(text) == Loop(AddBytes, <<>>, Blocks(text))[Len(Blocks(text))]

(* A padding stands behind a single character of a quad.                   *)
BadPadding(text) ==
  \E b \in 1..Len(Blocks(text)) - 1 : Len(Blocks(text)[b]) % 4 = 1
=============================================================================
