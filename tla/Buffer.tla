------------------------------- MODULE Buffer ------------------------------
(***************************************************************************)
(* faucet/Buffer.hpp with faucet/ReadWritable.hpp, clipped_cast.hpp and    *)
(* the read_ and write_ functions of faucet/socketApi.cpp: byte buffers    *)
(* that are appended to and read from a read position.  Every call holds   *)
(* apiMutex from its start to its end, so each is one step.                *)
(***************************************************************************)
EXTENDS Codecs, SequencesExt

CONSTANTS
  Buffers,        \* the buffers of the game
  NoResult,       \* what a call without a result returns
  TempBuffer,     \* 4096: bytes write_buffer_part copies at a time
  Values,         \* twice the numbers given to write_byte, write_ushort etc.
  Types,          \* integer types: their number of bytes and whether signed
  Garbage,        \* bytes found in uninitialized memory
  Strings,        \* contents of strings written and of files appended
  Delimiters,     \* given to read_delimited_string; read_cstring's is <<0>>
  HexTexts,       \* texts given to write_hex
  Base64Texts,    \* texts given to write_base64
  Lengths,        \* lengths and positions a call may name
  MaxSize,        \* bound: bytes in a buffer
  MaxWrites,      \* bound: calls in a behaviour that write
  ShortText       \* bound: length of the texts that may follow other writes

ASSUME BufferAssumption ==
  /\ TempBuffer \in Nat \ {0} /\ Values \subseteq Int /\ Lengths \subseteq Nat
  /\ Types \subseteq [bytes : Nat \ {0}, signed : BOOLEAN] /\ Garbage \subseteq Byte
  /\ Strings \subseteq Seq(Byte) /\ Delimiters \subseteq Seq(Byte)
  /\ HexTexts \subseteq Seq(HexChar) /\ Base64Texts \subseteq Seq(Base64Char)

VARIABLES
  data,           \* data: the bytes of each buffer
  readIndex,      \* readIndex
  littleEndian,   \* littleEndian_
  result,         \* what the last call returned
  call, writes    \* history: the last call, and the number of those that write

contents == <<data, readIndex, littleEndian>>
vars == <<contents, result, call, writes>>

(* What the following calls depend on: TLC need not tell other states      *)
(* apart, and still checks the properties on every step between them.      *)
view == <<contents, writes>>

Calls(name, b, argument) ==
  /\ call' = [name |-> name, buffer |-> b, argument |-> argument]
  /\ UNCHANGED writes
Writes(name, b, argument) ==
  /\ writes < MaxWrites /\ writes' = writes + 1
  /\ call' = [name |-> name, buffer |-> b, argument |-> argument]

bytesRemaining(b) == Len(data[b]) - readIndex[b]
Upcoming(b, n) == SubSeq(data[b], readIndex[b] + 1, readIndex[b] + n)
AtMost(n, limit) == IF n < limit THEN n ELSE limit
----------------------------------------------------------------------------
Clear(b) ==
  /\ data' = [data EXCEPT ![b] = <<>>]
  /\ readIndex' = [readIndex EXCEPT ![b] = 0]
  /\ result' = NoResult
  /\ UNCHANGED littleEndian
  /\ Calls("clear", b, NoResult)

SetLittleEndian(b) ==
  /\ littleEndian' = [littleEndian EXCEPT ![b] = ~@]
  /\ result' = NoResult
  /\ UNCHANGED <<data, readIndex>>
  /\ Calls("set_little_endian", b, NoResult)

ReadposUnclipped(b, pos) == pos
ReadposAfter(b, pos) == AtMost(pos, Len(data[b]))

SetReadpos(b, pos) ==
  /\ readIndex' = [readIndex EXCEPT ![b] = ReadposAfter(b, pos)]
  /\ result' = NoResult
  /\ UNCHANGED <<data, littleEndian>>
  /\ Calls("set_readpos", b, pos)

Appended(b, bytes) ==
  /\ Len(data[b]) + Len(bytes) <= MaxSize
  /\ data' = [data EXCEPT ![b] = @ \o bytes]
  /\ UNCHANGED <<readIndex, littleEndian>>
----------------------------------------------------------------------------
(* Numbers, counted in halves.  round() takes the nearest whole number and *)
(* halves away from 0, clipped_cast brings it into the range of its type,  *)
(* and the bytes are turned round unless the buffer is little endian.      *)
RoundedDown(value) == value \div 2
Rounded(value) == IF value < 0 THEN -((1 - value) \div 2) ELSE (value + 1) \div 2

RangeOf(type) ==
  LET all == Quarters(4 * type.bytes)
  IN  IF type.signed THEN [low |-> -(all \div 2), high |-> all \div 2 - 1]
      ELSE [low |-> 0, high |-> all - 1]
Clipped(value, type) ==
  LET range == RangeOf(type)
  IN  CASE value <= range.low -> range.low
        [] value >= range.high -> range.high
        [] OTHER -> value

InMemory(value, type) ==      \* lowest byte first
  [i \in 1..type.bytes |-> (value \div Quarters(4 * (i - 1))) % Quarters(4)]
Unsigned(bytes) ==
  LET lowest[n \in 0..Len(bytes)] ==
        IF n = 0 THEN 0 ELSE lowest[n - 1] + bytes[n] * Quarters(4 * (n - 1))
  IN  lowest[Len(bytes)]
FromMemory(bytes, type) ==
  IF type.signed /\ Unsigned(bytes) > RangeOf(type).high
  THEN Unsigned(bytes) - Quarters(4 * type.bytes) ELSE Unsigned(bytes)
Ordered(bytes, little) == IF little THEN bytes ELSE Reverse(bytes)

WriteNumber(b, value, type) ==
  /\ Appended(b, Ordered(InMemory(Clipped(Rounded(value), type), type), littleEndian[b]))
  /\ result' = NoResult
  /\ Writes("write_number", b, <<value, type>>)

(* readValue with too few bytes left keeps, for the missing ones, what the *)
(* uninitialized variable held.                                            *)
ReadNumber(b, type) ==
  LET n == AtMost(type.bytes, bytesRemaining(b))
  IN  /\ \E garbage \in [1..type.bytes - n -> Garbage] :
           result' = FromMemory(Ordered(Upcoming(b, n) \o garbage, littleEndian[b]), type)
      /\ readIndex' = [readIndex EXCEPT ![b] = @ + n]
      /\ UNCHANGED <<data, littleEndian>>
      /\ Calls("read_number", b, type)
----------------------------------------------------------------------------
(* write_string; and append_file_to_buffer, which reads the whole file     *)
(* before it writes anything, or reports an error.                         *)
WriteString(b, bytes) ==
  /\ Appended(b, bytes)
  /\ result' = NoResult
  /\ Writes("write_string", b, bytes)

FileErrors == {-1, -2, -3, -4}     \* not found, too large, no memory, cannot read
AppendFile(b, bytes) ==
  /\ \/ /\ Appended(b, bytes)
        /\ result' = 1
     \/ /\ UNCHANGED contents
        /\ result' \in FileErrors
  /\ Writes("append_file", b, bytes)

(* read_string and read_binary_string; skip_length_of_string; and the      *)
(* strings with a delimiter, which pass over its first occurrence but      *)
(* return what is before it.                                               *)
ReadString(b, len) ==
  LET n == AtMost(len, bytesRemaining(b))
  IN  /\ result' = Upcoming(b, n)
      /\ readIndex' = [readIndex EXCEPT ![b] = @ + n]
      /\ UNCHANGED <<data, littleEndian>>
      /\ Calls("read_string", b, len)

Skip(b, n) ==
  /\ readIndex' = [readIndex EXCEPT ![b] = ReadposAfter(b, @ + n)]
  /\ result' = NoResult
  /\ UNCHANGED <<data, littleEndian>>
  /\ Calls("skip", b, n)

bytesBeforeDelimiter(b, delim) ==
  LET found == {n \in 0..bytesRemaining(b) - Len(delim) :
                  SubSeq(Upcoming(b, bytesRemaining(b)), n + 1, n + Len(delim)) = delim}
  IN  IF found = {} THEN -1 ELSE Min(found)

ReadDelimited(b, delim) ==
  LET n == bytesBeforeDelimiter(b, delim)
  IN  /\ n >= 0
      /\ result' = Upcoming(b, n)
      /\ readIndex' = [readIndex EXCEPT ![b] = ReadposAfter(b, @ + n + Len(delim))]
      /\ UNCHANGED <<data, littleEndian>>
      /\ Calls("read_delimited", b, delim)

DelimiterMissing(b, delim) ==
  /\ bytesBeforeDelimiter(b, delim) < 0
  /\ result' = <<>>
  /\ UNCHANGED contents
  /\ Calls("read_delimited", b, delim)
----------------------------------------------------------------------------
(* Texts.                                                                  *)
Refused == -2
Accepted == 1

WriteHex(b, text) ==
  /\ Len(text) > ShortText => writes = 0
  /\ Writes("write_hex", b, text)
  /\ \/ /\ HexValid(text)
        /\ Appended(b, HexDecode(text))
        /\ result' = Accepted
     \/ /\ ~HexValid(text)
        /\ result' = Refused
        /\ UNCHANGED contents

WriteBase64(b, text) ==
  /\ Len(text) > ShortText => writes = 0
  /\ Writes("write_base64", b, text)
  /\ \/ /\ Base64Valid(text)
        /\ Appended(b, Base64Decode(text))
        /\ result' = Accepted
     \/ /\ ~Base64Valid(text)
        /\ result' = Refused
        /\ UNCHANGED contents

ReadHex(b, len) ==
  LET n == AtMost(len, bytesRemaining(b))
  IN  /\ result' = HexEncode(Upcoming(b, n))
      /\ readIndex' = [readIndex EXCEPT ![b] = ReadposAfter(b, readIndex[b] + n)]
      /\ UNCHANGED <<data, littleEndian>>
      /\ Calls("read_hex", b, len)

ReadBase64(b, len) ==
  LET n == AtMost(len, bytesRemaining(b))
  IN  /\ result' = Base64Encode(Upcoming(b, n))
      /\ readIndex' = [readIndex EXCEPT ![b] = ReadposAfter(b, readIndex[b] + n)]
      /\ UNCHANGED <<data, littleEndian>>
      /\ Calls("read_base64", b, len)
----------------------------------------------------------------------------
(* write_buffer_part copies through a temporary buffer, as many full ones  *)
(* as fit and the rest; what the source has left is counted beforehand.    *)
(* Its loop is one over the sizes of the pieces: read, then write.         *)
Pieces(n) == [i \in 1..n \div TempBuffer |-> TempBuffer] \o <<n % TempBuffer>>
CopyPiece(dest, source, state, size) ==
  LET n == AtMost(size, Len(state.data[source]) - state.pos)
  IN  [data |-> [state.data EXCEPT ![dest] =
                   @ \o SubSeq(state.data[source], state.pos + 1, state.pos + n)],
       pos |-> state.pos + n]
CopyFrom(dest, source, pos, n) ==
  LET copied[i \in 0..Len(Pieces(n))] ==
        IF i = 0 THEN [data |-> data, pos |-> pos]
        ELSE CopyPiece(dest, source, copied[i - 1], Pieces(n)[i])
  IN  copied[Len(Pieces(n))]

WriteBufferPart(dest, source, ammount) ==
  LET n == AtMost(ammount, bytesRemaining(source))
      copied == CopyFrom(dest, source, readIndex[source], n)
  IN  /\ Len(data[dest]) + n <= MaxSize
      /\ data' = copied.data
      /\ readIndex' = [readIndex EXCEPT ![source] = copied.pos]
      /\ result' = n
      /\ UNCHANGED littleEndian
      /\ Writes("write_buffer_part", dest, <<source, ammount>>)

(* write_buffer reads the source from its start and then goes back.        *)
StayingThere(source, pos) == Len(data[source])
GoneBack(source, pos) == pos
WriteBuffer(dest, source) ==
  LET copied == CopyFrom(dest, source, 0, Len(data[source]))
  IN  /\ Len(data[dest]) + Len(data[source]) <= MaxSize
      /\ data' = copied.data
      /\ readIndex' = [readIndex EXCEPT ![source] = GoneBack(source, @)]
      /\ result' = NoResult
      /\ UNCHANGED littleEndian
      /\ Writes("write_buffer", dest, source)
----------------------------------------------------------------------------
Init ==
  /\ data = [b \in Buffers |-> <<>>]
  /\ readIndex = [b \in Buffers |-> 0]
  /\ littleEndian = [b \in Buffers |-> FALSE]
  /\ result = NoResult
  /\ call = [name |-> "none", buffer |-> NoResult, argument |-> NoResult]
  /\ writes = 0

Next ==
  \E b \in Buffers :
    \/ Clear(b) \/ SetLittleEndian(b)
    \/ \E pos \in Lengths : SetReadpos(b, pos)
    \/ \E value \in Values, type \in Types : WriteNumber(b, value, type)
    \/ \E type \in Types : ReadNumber(b, type)
    \/ \E n \in Lengths :
         \/ Skip(b, n) \/ ReadString(b, n) \/ ReadHex(b, n) \/ ReadBase64(b, n)
         \/ \E source \in Buffers : WriteBufferPart(b, source, n)
    \/ \E bytes \in Strings : WriteString(b, bytes) \/ AppendFile(b, bytes)
    \/ \E delim \in Delimiters :
         ReadDelimited(b, delim) \/ DelimiterMissing(b, delim)
    \/ \E text \in HexTexts : WriteHex(b, text)
    \/ \E text \in Base64Texts : WriteBase64(b, text)
    \/ \E source \in Buffers : WriteBuffer(b, source)

Spec == Init /\ [][Next]_vars
----------------------------------------------------------------------------
ReadFrom(b) == SubSeq(data[b], readIndex[b] + 1, readIndex'[b])
Added(b) == SubSeq(data'[b], Len(data[b]) + 1, Len(data'[b]))
Distance(x, y) == IF x < y THEN y - x ELSE x - y

(* No read position ever points behind the end of its buffer, where        *)
(* bytesRemaining, a difference of unsigned numbers, would wrap round.     *)
ReadposWithin == \A b \in Buffers : readIndex[b] <= Len(data[b])

(* A call that writes, by what it leaves behind the bytes of its buffer.   *)
Written ==
  LET b == call'.buffer
      argument == call'.argument
  IN  call'.name \in {"write_string", "append_file", "write_hex", "write_base64", "write_number"} =>
        /\ data' = [data EXCEPT ![b] = @ \o Added(b)]
        /\ readIndex' = readIndex
        /\ call'.name = "write_string" => Added(b) = argument
        /\ call'.name = "append_file" =>
             Added(b) = IF result' = 1 THEN argument ELSE <<>>
        /\ call'.name = "write_hex" =>
             IF result' = Accepted THEN HexEncode(Added(b)) = argument
             ELSE /\ Added(b) = <<>>
                  /\ Len(argument) % 2 = 1 \/ \E i \in DOMAIN argument : argument[i] \notin Nibble
        /\ call'.name = "write_base64" /\ ~BadPadding(argument) =>
             IF \E i \in DOMAIN argument : argument[i] = Invalid
             THEN result' = Refused /\ Added(b) = <<>>
             ELSE result' = Accepted /\ Added(b) = Base64Meaning(argument)
        /\ call'.name = "write_number" =>
             LET value == argument[1]
                 type == argument[2]
                 stored == FromMemory(Ordered(Added(b), littleEndian[b]), type)
             IN  \A other \in RangeOf(type).low..RangeOf(type).high :
                   \/ other = stored
                   \/ Distance(value, 2 * stored) < Distance(value, 2 * other)
                   \/ /\ Distance(value, 2 * stored) = Distance(value, 2 * other)
                      /\ Distance(0, stored) > Distance(0, other)
(* Whatever is written is appended, moves no read position and has the     *)
(* meaning the help gives it.  A hex text is accepted exactly if it is the *)
(* encoding of the bytes it adds.  A base64 text, unless a padding in it   *)
(* is misplaced, is accepted exactly if it has no character foreign to the *)
(* encoding, and adds the bytes of each of its padded parts.  A number is  *)
(* the nearest its type has, of two the one further from 0, in the byte    *)
(* order of the buffer.  Refused texts add nothing.                        *)
WrittenAsMeant == [][Written]_vars

(* A call that reads, by what it returns of the bytes ahead.               *)
Read ==
  LET b == call'.buffer
      argument == call'.argument
      IsAhead(n) == SubSeq(data[b], readIndex[b] + n + 1, readIndex[b] + n + Len(argument)) = argument
  IN  call'.name \in {"read_hex", "read_base64", "read_string", "read_number", "read_delimited"} =>
        /\ data' = data
        /\ \A c \in Buffers \ {b} : readIndex'[c] = readIndex[c]
        /\ call'.name \in {"read_hex", "read_base64", "read_string"} =>
             Len(ReadFrom(b)) = AtMost(argument, bytesRemaining(b))
        /\ call'.name = "read_string" => result' = ReadFrom(b)
        /\ call'.name = "read_hex" => HexDecode(result') = ReadFrom(b)
        /\ call'.name = "read_base64" =>
             Base64Decode(result') = ReadFrom(b) /\ Len(result') % 4 = 0
        /\ call'.name = "read_number" /\ bytesRemaining(b) >= argument.bytes =>
             Ordered(InMemory(result', argument), littleEndian[b]) = ReadFrom(b)
        /\ call'.name = "read_delimited" =>
             IF ReadFrom(b) = <<>>
             THEN \/ argument = <<>>
                  \/ \A n \in 0..bytesRemaining(b) - Len(argument) : ~IsAhead(n)
             ELSE /\ ReadFrom(b) = result' \o argument
                  /\ \A n \in 0..Len(result') - 1 : ~IsAhead(n)
(* Every read returns just the bytes it passes over, as many as asked for  *)
(* or as are left, and changes no data: texts decode to these bytes,       *)
(* numbers are written as these bytes, and a string with a delimiter ends  *)
(* at the first one ahead and passes over that too, or stays where it is   *)
(* if there is none.                                                       *)
ReadAsStored == [][Read]_vars

(* A call that copies, by what is appended and where the source stands.    *)
Copied ==
  LET b == call'.buffer
      argument == call'.argument
  IN  /\ call'.name = "write_buffer" =>
           /\ data' = [data EXCEPT ![b] = @ \o data[argument]]
           /\ readIndex' = readIndex
      /\ call'.name = "write_buffer_part" =>
           /\ data' = [data EXCEPT ![b] = @ \o ReadFrom(argument[1])]
           /\ \A c \in Buffers \ {argument[1]} : readIndex'[c] = readIndex[c]
           /\ result' = Len(ReadFrom(argument[1]))
           /\ result' = AtMost(argument[2], bytesRemaining(argument[1]))
(* Copying a buffer, to itself as well, appends all of it as it was and    *)
(* moves no read position; copying a part appends what it passes over in   *)
(* the source, and moves no other read position.                           *)
CopiedWhole == [][Copied]_vars

(* Base64Codec.hpp:111 calls it an invalid padding if a quad has only one  *)
(* normal character before it, and the help says of write_base64: "If an   *)
(* error occurs (e.g. invalid base64), the buffer contents will not be     *)
(* changed".                                                               *)
BadPaddingRejected ==
  [][call'.name = "write_base64" /\ BadPadding(call'.argument) => data' = data]_vars
=============================================================================
