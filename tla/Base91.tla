------------------------------- MODULE Base91 -------------------------------
(***************************************************************************)
(* base91.cpp and the sizes of base91.h.  One behaviour encodes an input,  *)
(* one octet per step, and decodes the text that came out, one character   *)
(* per step; or decodes a text that no encoder made, as the inbox does     *)
(* with whatever a node sends.  Characters are their ASCII codes.          *)
(*                                                                         *)
(* queue |= x << numBits is an addition here: queue has no bit at or above *)
(* numBits, which is a part of BufferSuffices.                             *)
(***************************************************************************)
EXTENDS Integers, Sequences

CONSTANTS
  Inputs,       \* what is encoded
  Texts,        \* strings that are decoded without having been encoded
  BufferSizes   \* values of outputMaxLen

ASSUME Base91Assumption ==
  /\ \A s \in Inputs : s \in Seq(0..255) /\ s # <<>>
  /\ \A s \in Texts : s \in Seq(1..255)
  /\ BufferSizes \subseteq Nat \ {0}

VARIABLES
  phase,         \* "encode", "decode", "done"; a failed call returned 0
  input,         \* octets given to encode, <<>> when there was no encoding
  text,          \* characters written by encode, read by decode
  output,        \* octets written by decode
  outputMaxLen,  \* size of the buffer that is being written
  pos,           \* octets or characters read
  queue, numBits,
  val            \* first character of a pair, or -1

codecVars ==
  <<phase, input, text, output, outputMaxLen, pos, queue, numBits, val>>

----------------------------------------------------------------------------
(* The tables *)

(* A-Z a-z 0-9, then ! #$%& ()*+, ./ :;<=>?@ [ ]^_` {|}~ and -. *)
ALPHABET ==
  [i \in 1..91 |->
     CASE i \in 1..26  -> 65 + i - 1
       [] i \in 27..52 -> 97 + i - 27
       [] i \in 53..62 -> 48 + i - 53
       [] i = 63       -> 33
       [] i \in 64..67 -> 35 + i - 64
       [] i \in 68..72 -> 40 + i - 68
       [] i \in 73..74 -> 46 + i - 73
       [] i \in 75..81 -> 58 + i - 75
       [] i = 82       -> 91
       [] i \in 83..86 -> 93 + i - 83
       [] i \in 87..90 -> 123 + i - 87
       [] i = 91       -> 45]

(* The rows of the table, each an arithmetic run of values. *)
DECODE_TABLE ==
  [c \in 0..255 |->
     CASE c \in 65..90   -> c - 65
       [] c \in 97..122  -> c - 97 + 26
       [] c \in 48..57   -> c - 48 + 52
       [] c = 33         -> 62
       [] c \in 35..38   -> c - 35 + 63
       [] c \in 40..44   -> c - 40 + 67
       [] c = 45         -> 90
       [] c \in 46..47   -> c - 46 + 72
       [] c \in 58..64   -> c - 58 + 74
       [] c = 91         -> 81
       [] c \in 93..96   -> c - 93 + 82
       [] c \in 123..126 -> c - 123 + 86
       [] OTHER          -> (-1)]

Pair(v) == <<ALPHABET[(v % 91) + 1], ALPHABET[(v \div 91) + 1]>>

(* Bits carried by a pair: 14 when the low 13 bits are small enough. *)
PairBits(v) == IF v % 8192 > 88 THEN 13 ELSE 14

(* Faulty variant: the worst case is not rounded up. *)
encodedSizeDown(n) == (n * 16) \div 13

encodedSize(n) == ((n * 16 + 12) \div 13) + 1

----------------------------------------------------------------------------
CodecInit ==
  /\ output = <<>>
  /\ pos = 0
  /\ queue = 0
  /\ numBits = 0
  /\ val = -1
  /\ outputMaxLen \in BufferSizes
  /\ \/ phase = "encode" /\ input \in Inputs /\ text = <<>>
     \/ phase = "decode" /\ input = <<>> /\ text \in Texts

(* The next octet is shifted in; the queue then holds too few bits ...     *)
Shift ==
  /\ phase = "encode" /\ pos < Len(input) /\ numBits + 8 <= 13
  /\ pos' = pos + 1
  /\ queue' = queue + input[pos + 1] * 2^numBits
  /\ numBits' = numBits + 8
  /\ UNCHANGED <<phase, input, text, output, outputMaxLen, val>>

(* ... or enough for a pair of characters. *)
EmitPair ==
  /\ phase = "encode" /\ pos < Len(input) /\ numBits + 8 > 13
  /\ LET q    == queue + input[pos + 1] * 2^numBits
         bits == PairBits(q)
     IN IF Len(text) + 2 > outputMaxLen - 1
        THEN /\ phase' = "encodeFailed"
             /\ UNCHANGED <<text, pos, queue, numBits>>
        ELSE /\ text' = text \o Pair(q % 2^bits)
             /\ pos' = pos + 1
             /\ queue' = q \div 2^bits
             /\ numBits' = numBits + 8 - bits
             /\ UNCHANGED phase
  /\ UNCHANGED <<input, output, outputMaxLen, val>>

(* Faulty variant: seven bits are taken to fit one character. *)
TailByBits(q, n) == IF n = 0 THEN 0 ELSE IF n > 7 THEN 2 ELSE 1

(* Characters for the remaining bits. *)
TailLen(q, n) == IF n = 0 THEN 0 ELSE IF n > 7 \/ q > 90 THEN 2 ELSE 1

(* The rest is written and encode returns; the text is then decoded into a *)
(* buffer of exactly the input's length.                                   *)
FinishEncode ==
  /\ phase = "encode" /\ pos = Len(input)
  /\ IF Len(text) + TailLen(queue, numBits) > outputMaxLen - 1
     THEN /\ phase' = "encodeFailed"
          /\ UNCHANGED <<text, outputMaxLen, pos, queue, numBits>>
     ELSE /\ phase' = "decode"
          /\ text' = text \o SubSeq(Pair(queue), 1, TailLen(queue, numBits))
          /\ outputMaxLen' = Len(input)
          /\ pos' = 0
          /\ queue' = 0
          /\ numBits' = 0
  /\ UNCHANGED <<input, output, val>>

Digit == DECODE_TABLE[text[pos + 1]]

(* A character that is skipped, or that begins a pair. *)
ReadFirst ==
  /\ phase = "decode" /\ pos < Len(text)
  /\ Digit = -1 \/ val = -1
  /\ pos' = pos + 1
  /\ val' = IF Digit = -1 THEN val ELSE Digit
  /\ UNCHANGED <<phase, input, text, output, outputMaxLen, queue, numBits>>

(* Octets written by `while (numBits >= 8)', and which. *)
WholeOctets(n) == n \div 8

OctetsOf(q, k) == [j \in 1..k |-> (q \div 256^(j - 1)) % 256]

(* A character that ends a pair. *)
ReadSecond ==
  /\ phase = "decode" /\ pos < Len(text)
  /\ Digit # -1 /\ val # -1
  /\ LET v == val + Digit * 91
         q == queue + v * 2^numBits
         n == numBits + PairBits(v)
         k == WholeOctets(n)
     IN IF Len(output) + k > outputMaxLen
        THEN /\ phase' = "decodeFailed"
             /\ UNCHANGED <<output, pos, queue, numBits, val>>
        ELSE /\ output' = output \o OctetsOf(q, k)
             /\ pos' = pos + 1
             /\ queue' = q \div 256^k
             /\ numBits' = n - 8 * k
             /\ val' = -1
             /\ UNCHANGED phase
  /\ UNCHANGED <<input, text, outputMaxLen>>

(* A single last character is one more octet. *)
FinishDecode ==
  /\ phase = "decode" /\ pos = Len(text)
  /\ IF val # -1 /\ Len(output) >= outputMaxLen
     THEN phase' = "decodeFailed" /\ UNCHANGED output
     ELSE /\ phase' = "done"
          /\ output' = IF val = -1 THEN output
                       ELSE Append(output, (queue + val * 2^numBits) % 256)
  /\ UNCHANGED <<input, text, outputMaxLen, pos, queue, numBits, val>>

CodecNext ==
  Shift \/ EmitPair \/ FinishEncode \/ ReadFirst \/ ReadSecond \/ FinishDecode

CodecSpec == CodecInit /\ [][CodecNext]_codecVars

----------------------------------------------------------------------------
(* Correctness *)

(* The variables have the types of their declarations. *)
CodecTypeOK ==
  /\ phase \in {"encode", "decode", "done", "encodeFailed", "decodeFailed"}
  /\ val \in -1..90
  /\ pos \in 0..(IF phase \in {"encode", "encodeFailed"} THEN Len(input) ELSE Len(text))

(* decode(encode(x)) = x, with no octet more or less, although the length  *)
(* is not transmitted: the tail rule of encode (one character or two) and  *)
(* the last octet of decode have to agree.                                 *)
RoundTrip == phase = "done" /\ input # <<>> => output = input

(* encode returns 0 only for a buffer that does not hold "maximum encoded  *)
(* size for given input length" of base91.h and a terminator; decode of an *)
(* encoded text never needs more room than the input had, and decode of    *)
(* any text fails only below seven octets for eight characters.  So the    *)
(* node's encodedMsg[151] and decodedData[256] always do.  The queue has   *)
(* numBits bits, less than an octet between two pairs of a decoder, also   *)
(* for texts that no encoder wrote, whose pairs reach 8280.                *)
BufferSuffices ==
  /\ numBits \in 0..(IF phase \in {"encode", "encodeFailed"} THEN 13 ELSE 7)
  /\ queue \in 0..(2^numBits - 1)
  /\ phase = "encodeFailed" => outputMaxLen <= encodedSize(Len(input))
  /\ phase = "decodeFailed" => input = <<>> /\ 8 * outputMaxLen < 7 * Len(text) + 8

============================================================================
