--------------------------- MODULE WMLCDecompiler ---------------------------
(***************************************************************************)
(* WMLCDecompiler::decompile of wmlc_decompiler.cpp: a WBXML page is read  *)
(* token by token and written as text.  The input is its octets; of the    *)
(* output the model keeps the length and which tags are open.  Numbers in  *)
(* the input are taken to fit their 32 bits, and the string table to end   *)
(* in a zero.                                                              *)
(***************************************************************************)
EXTENDS Integers, FiniteSets, SequencesExt

CONSTANT StackMax   \* elementStack[32]

ASSUME StackAssumption == StackMax \in Nat

VARIABLES
  mode,          \* "idle", "prologue", "body", "attrs", "value", "done", "failed"
  wmlc,          \* the page
  pos,           \* next octet
  strings,       \* [start, len] of the string table
  elem,          \* the element whose attributes are read
  elementStack,  \* names of open elements
  outPos,        \* length of the text
  outputSize,
  written        \* history: start tags not closed (open), elements not pushed (deep),
                 \* an end tag out of turn (crossed) or without start tag (stray)

wmlcVars == <<mode, wmlc, pos, strings, elem, elementStack, outPos, outputSize, written>>
pageVars == <<wmlc, strings, outputSize>>

WBXML_SWITCH_PAGE == 0
WBXML_END == 1
WBXML_ENTITY == 2
WBXML_STR_I == 3
WBXML_EXT_I == 64..66
WBXML_PI == 67
WBXML_EXT_T == 128..130
WBXML_STR_T == 131
WBXML_OPAQUE == 195

(* LITERAL, _C, _A, _AC: 0x04 with the bits of any tag. *)
WBXML_LITERALS == {4, 68, 132, 196}

Globals ==
  {WBXML_SWITCH_PAGE, WBXML_END, WBXML_ENTITY, WBXML_STR_I, WBXML_PI, WBXML_STR_T, WBXML_OPAQUE}
    \cup WBXML_EXT_I \cup WBXML_EXT_T \cup WBXML_LITERALS

HasContent(token) == (token \div 64) % 2 = 1
HasAttrs(token) == token >= 128

(* The tables, as lengths of names and values; 0 for no entry. *)
ElementLen ==
  <<1, 2, 2, 5, 1, 9, 6, 6, 1, 3, 2, 4, 2, 2, 8, 2, 4, 1, 3, 5, 4, 4, 4, 7, 8, 6, 7, 6, 5, 6, 0,
    8, 5, 1, 6, 3>>

AttributeLen ==
  <<14, 5, 5, 5, 5, 5, 5, 3, 7, 0, 6, 7, 7, 6, 6, 6, 6, 5, 0, 5, 8, 9, 6, 6, 4, 4, 8, 8, 4, 10,
    10, 6, 15, 14, 7, 8, 8, 4, 0, 0, 0, 6, 11, 11, 4, 3, 7, 7, 8, 5, 4, 4, 4, 4, 4, 4, 4, 4, 4,
    0, 0, 0, 0, 0, 4, 4, 4, 4, 4, 4, 4, 4, 5, 6, 5, 8, 0, 5, 7, 5, 2, 5, 5, 3, 3, 10, 10, 7, 10,
    9, 7, 7, 7, 9, 9, 13>>

PrefixLen ==
  <<0, 6, 6, 4, 6, 5, 3, 0, 0, 0, 0, 5, 4, 0, 0, 0, 0, 0, 0, 0, 0, 0, 3, 4, 6, 4, 5, 4, 0, 5, 4,
    0, 0, 0, 0, 5, 4, 0, 0, 0, 0, 0, 5, 4, 0, 0, 4, 5, 0, 0, 0, 6, 6, 4, 8, 6, 15, 14, 7, 0, 0,
    0, 0, 0, 7, 4, 5, 4, 4, 0, 7, 8, 0, 0, 0, 0, 0, 0, 0, 0, 0, 5, 4, 7, 8, 0, 12, 33, 7, 0, 0,
    33, 19, 8, 7, 8>>

AttrValueLen ==
  <<5, 5, 5, 5, 6, 6, 5, 6, 4, 7, 11, 8, 12, 0, 6, 6, 6, 15, 14, 7, 7, 8, 5, 0, 4, 3, 7, 4, 4>>

Entry(table, first, token) ==
  IF token - first + 1 \in DOMAIN table THEN table[token - first + 1] ELSE 0

getElementName(token) == Entry(ElementLen, 28, token % 64)
getAttributeName(token) == Entry(AttributeLen, 5, token)
getAttributeValue(token) == Entry(AttrValueLen, 133, token)

----------------------------------------------------------------------------
(* Reading *)

(* The number in octets from..to: seven bits of each, of which an unsigned *)
(* long keeps those of the last five at most.                              *)
MbUintValue(from, to) ==
  LET Bits(k) == IF to - k >= from THEN (wmlc[to - k] % 128) * 128^k ELSE 0 IN
  Bits(0) + Bits(1) + Bits(2) + Bits(3) + Bits(4)

(* The number at p, or used = 0 if the input ends in it. *)
decodeMbUint[p \in Nat] ==
  LET ends == {n \in p..Len(wmlc) : wmlc[n] < 128} IN
  IF ends = {} THEN [used |-> 0, value |-> 0]
  ELSE LET n == CHOOSE k \in ends : \A j \in ends : k <= j IN
       [used |-> n - p + 1, value |-> MbUintValue(p, n)]

(* The end of the string at p, which may be the end of the input. *)
StringEnd(p) ==
  LET nuls == {n \in p..Len(wmlc) : wmlc[n] = 0} IN
  IF nuls = {} THEN Len(wmlc) + 1 ELSE CHOOSE n \in nuls : \A k \in nuls : n <= k

AfterString(p) == IF StringEnd(p) > Len(wmlc) THEN Len(wmlc) + 1 ELSE StringEnd(p) + 1

(* The length of a string of the table; 0 outside it. *)
TableString(offset) ==
  IF offset < strings.len
  THEN StringEnd(strings.start + offset) - (strings.start + offset) ELSE 0

(* Names: a token, or a string of the table, or "unknown". *)
LiteralName(offset) == IF offset < strings.len THEN <<"literal", offset>> ELSE <<"literal", -1>>
ElementName(token) == <<"element", token % 64>>

NameLen(name) ==
  IF name[1] = "element" THEN getElementName(name[2])
  ELSE IF name[2] = -1 THEN 7 ELSE TableString(name[2])

----------------------------------------------------------------------------
(* Writing *)

(* Faulty variant: no room is left for the terminator. *)
FitsExactly(n) == n <= outputSize

Fits(n) == n < outputSize

(* appendStr: all or nothing. *)
Str(o, n) == IF Fits(o + n) THEN o + n ELSE o

(* appendChar, n times: as many as there is room for. *)
Chars(o, n) ==
  IF Fits(o + n) THEN o + n ELSE IF Fits(o + 1) THEN outputSize - 1 ELSE o

(* Escape suffix of a variable: ":e" or ":u" or nothing, and ")". *)
VariableEnd(o, kind) == Chars(IF kind = 0 THEN o ELSE Str(o, 2), 1)

CloseTag(o, name) == Chars(Str(Str(o, 2), NameLen(name)), 1)

(* A start tag, and an end tag for the innermost start tag of that name. *)
Opened(w, name, pushed) ==
  [w EXCEPT !.open = Append(@, name), !.deep = IF pushed THEN @ ELSE @ + 1]

Closed(w, name) ==
  LET at == {n \in DOMAIN w.open : w.open[n] = name} IN
  IF at = {} THEN [w EXCEPT !.stray = TRUE]
  ELSE [w EXCEPT !.open = RemoveAt(@, Max(at)), !.crossed = @ \/ Max(at) # Len(w.open)]

----------------------------------------------------------------------------
DecompileInit ==
  /\ mode = "idle"
  /\ wmlc = <<>>
  /\ pos = 1
  /\ strings = [start |-> 1, len |-> 0]
  /\ elem = [name |-> <<"literal", -1>>, content |-> FALSE]
  /\ elementStack = <<>>
  /\ outPos = 0
  /\ outputSize = 0
  /\ written = [open |-> <<>>, deep |-> 0, crossed |-> FALSE, stray |-> FALSE]

StartDecompile(page, size) ==
  /\ mode' = "prologue"
  /\ wmlc' = page
  /\ outputSize' = size
  /\ UNCHANGED <<pos, strings, elem, elementStack, outPos, written>>

(* Lengths of the XML declaration and of the DOCTYPEs of WML 1.1 to 1.3. *)
Declaration(publicId) ==
  LET o == Str(0, 22) IN
  CASE publicId = 4 -> Str(o, 95) [] publicId \in {9, 10} -> Str(o, 93) [] OTHER -> o

(* Version, public id (or 0 and a string of the table), charset, table. *)
Prologue ==
  /\ mode = "prologue"
  /\ LET id      == decodeMbUint[2]
         idRef   == IF id.value = 0 THEN decodeMbUint[2 + id.used] ELSE [used |-> 0, value |-> id.value]
         public  == IF id.value = 0 /\ idRef.used > 0 THEN idRef.value ELSE id.value
         charset == decodeMbUint[2 + id.used + idRef.used]
         table   == decodeMbUint[2 + id.used + idRef.used + charset.used]
         start   == 2 + id.used + idRef.used + charset.used + table.used
     IN IF \/ Len(wmlc) < 4 \/ outputSize < 100
           \/ id.used = 0 \/ charset.used = 0 \/ table.used = 0
           \/ start + table.value > Len(wmlc) + 1
        THEN /\ mode' = "failed"
             /\ UNCHANGED <<pos, strings, outPos>>
        ELSE /\ mode' = "body"
             /\ pos' = start + table.value
             /\ strings' = [start |-> start, len |-> table.value]
             /\ outPos' = Declaration(public)
  /\ UNCHANGED <<wmlc, elem, elementStack, outputSize, written>>

----------------------------------------------------------------------------
(* The body *)

token == wmlc[pos]
number == decodeMbUint[pos + 1]

InBody(tokens) == mode = "body" /\ pos <= Len(wmlc) /\ token \in tokens

(* A page switch with its number, and tokens that are ignored: also a      *)
(* number that the end of the input cuts off, octet by octet.              *)
SkipToken ==
  /\ \/ /\ InBody({WBXML_SWITCH_PAGE})
        /\ pos' = IF pos < Len(wmlc) THEN pos + 2 ELSE pos + 1
     \/ /\ \/ InBody({WBXML_PI})
           \/ /\ InBody({WBXML_ENTITY, WBXML_STR_T, WBXML_OPAQUE} \cup WBXML_EXT_T \cup WBXML_LITERALS)
              /\ number.used = 0
           \/ InBody((0..255) \ Globals) /\ getElementName(token) = 0
        /\ pos' = pos + 1
  /\ UNCHANGED <<mode, pageVars, elem, elementStack, outPos, written>>

CloseInnermost ==
  /\ elementStack' = Front(elementStack)
  /\ outPos' = CloseTag(outPos, Last(elementStack))
  /\ written' = Closed(written, Last(elementStack))

(* END closes the innermost element that was pushed, or nothing. *)
EndElement ==
  /\ InBody({WBXML_END})
  /\ pos' = pos + 1
  /\ IF elementStack = <<>>
     THEN UNCHANGED <<elementStack, outPos, written>>
     ELSE CloseInnermost
  /\ UNCHANGED <<mode, pageVars, elem>>

(* "&#", up to ten digits and ";". *)
EntityLen(n) == 3 + 1 + Cardinality({k \in 1..9 : n >= 10^k})

WriteText ==
  /\ \/ /\ InBody({WBXML_ENTITY}) /\ number.used > 0
        /\ pos' = pos + 1 + number.used
        /\ outPos' = Str(outPos, EntityLen(number.value))
     \/ /\ InBody({WBXML_STR_I})
        /\ pos' = AfterString(pos + 1)
        /\ outPos' = Chars(outPos, StringEnd(pos + 1) - pos - 1)
     \/ /\ InBody({WBXML_STR_T}) /\ number.used > 0
        /\ pos' = pos + 1 + number.used
        /\ outPos' = Str(outPos, TableString(number.value))
     \/ /\ InBody(WBXML_EXT_I)
        /\ pos' = AfterString(pos + 1)
        /\ outPos' = VariableEnd(Chars(Str(outPos, 2), StringEnd(pos + 1) - pos - 1), token - 64)
     \/ /\ InBody(WBXML_EXT_T) /\ number.used > 0
        /\ pos' = pos + 1 + number.used
        /\ outPos' = VariableEnd(Str(Str(outPos, 2), TableString(number.value)), token - 128)
  /\ UNCHANGED <<mode, pageVars, elem, elementStack, written>>

(* Skipped, possibly past the end. *)
Opaque ==
  /\ InBody({WBXML_OPAQUE}) /\ number.used > 0
  /\ pos' = pos + 1 + number.used + number.value
  /\ UNCHANGED <<mode, pageVars, elem, elementStack, outPos, written>>

CanPush(stack) == Len(stack) < StackMax

(* The end of a start tag: o is what was written so far. *)
EndTag(o, name, content) ==
  IF content
  THEN /\ outPos' = Chars(o, 1)
       /\ elementStack' = IF CanPush(elementStack) THEN Append(elementStack, name)
                          ELSE elementStack
       /\ written' = Opened(written, name, CanPush(elementStack))
  ELSE /\ outPos' = Str(o, 2)
       /\ UNCHANGED <<elementStack, written>>

(* Attributes of a literal element are skipped up to the first octet 1. *)
Literal ==
  /\ InBody(WBXML_LITERALS) /\ number.used > 0
  /\ LET name == LiteralName(number.value)
         next == pos + 1 + number.used
         ends == {n \in next..Len(wmlc) : wmlc[n] = WBXML_END}
     IN /\ pos' = IF ~HasAttrs(token) THEN next
                  ELSE IF ends = {} THEN Len(wmlc) + 1
                  ELSE (CHOOSE n \in ends : \A k \in ends : n <= k) + 1
        /\ EndTag(Str(Chars(outPos, 1), NameLen(name)), name, HasContent(token))
  /\ UNCHANGED <<mode, pageVars, elem>>

Element ==
  /\ InBody((0..255) \ Globals) /\ getElementName(token) > 0
  /\ pos' = pos + 1
  /\ LET name == ElementName(token)
         o    == Str(Chars(outPos, 1), NameLen(name))
     IN IF HasAttrs(token)
        THEN /\ mode' = "attrs"
             /\ elem' = [name |-> name, content |-> HasContent(token)]
             /\ outPos' = o
             /\ UNCHANGED <<elementStack, written>>
        ELSE /\ EndTag(o, name, HasContent(token))
             /\ UNCHANGED <<mode, elem>>
  /\ UNCHANGED pageVars

----------------------------------------------------------------------------
(* Attributes *)

InList(m) == mode = m /\ pos <= Len(wmlc)

(* The list ends at END or with the input. *)
EndAttributes ==
  /\ mode = "attrs"
  /\ pos > Len(wmlc) \/ (InList("attrs") /\ token = WBXML_END)
  /\ pos' = IF pos > Len(wmlc) THEN pos ELSE pos + 1
  /\ mode' = "body"
  /\ EndTag(outPos, elem.name, elem.content)
  /\ UNCHANGED <<pageVars, elem>>

(* Faulty variant: a token that names no attribute is not stepped over. *)
StayAtUnknown(p) == p

AfterUnknown(p) == p + 1

(* " name=" and the quote, with the value's beginning. *)
StartAttribute ==
  /\ InList("attrs") /\ token \in (0..127) \ {WBXML_END, WBXML_STR_I}
  /\ IF getAttributeName(token) > 0
     THEN /\ mode' = "value"
          /\ pos' = pos + 1
          /\ LET o == Str(Str(Chars(outPos, 1), getAttributeName(token)), 2) IN
             outPos' = Str(o, Entry(PrefixLen, 5, token))
     ELSE /\ pos' = AfterUnknown(pos)
          /\ UNCHANGED <<mode, outPos>>
  /\ UNCHANGED <<pageVars, elem, elementStack, written>>

(* Strings and value tokens, in a value or loose in the list; only in a    *)
(* value are 0x80 to 0x82 variables.                                       *)
AttributeText ==
  /\ InList("attrs") \/ InList("value")
  /\ \/ /\ token = WBXML_STR_I
        /\ pos' = AfterString(pos + 1)
        /\ outPos' = Chars(outPos, StringEnd(pos + 1) - pos - 1)
     \/ /\ token = WBXML_STR_T
        /\ pos' = pos + 1 + number.used
        /\ outPos' = IF number.used > 0 THEN Str(outPos, TableString(number.value)) ELSE outPos
     \/ /\ token >= 128 /\ token # WBXML_STR_T
        /\ mode = "attrs" \/ token \notin WBXML_EXT_T
        /\ pos' = pos + 1
        /\ outPos' = IF getAttributeValue(token) > 0 THEN Str(outPos, getAttributeValue(token)) ELSE outPos
     \/ /\ mode = "value" /\ token \in WBXML_EXT_T
        /\ pos' = pos + 1 + number.used
        /\ outPos' = IF number.used > 0
                  THEN VariableEnd(Str(Str(outPos, 2), TableString(number.value)), token - 128)
                  ELSE outPos
     \/ /\ mode = "value" /\ token \in {0, 2, 4}
        /\ pos' = pos + 1
        /\ UNCHANGED outPos
  /\ UNCHANGED <<mode, pageVars, elem, elementStack, written>>

(* The closing quote, before END, the next attribute or the end.  The test *)
(* for the next attribute comes first, so that a variable with an inline   *)
(* name (0x40 to 0x42) ends the value as well.                             *)
EndValue ==
  /\ mode = "value"
  /\ pos > Len(wmlc) \/ (InList("value") /\ token \in {WBXML_END} \cup 5..127)
  /\ mode' = "attrs"
  /\ outPos' = Chars(outPos, 1)
  /\ UNCHANGED <<pageVars, pos, elem, elementStack, written>>

----------------------------------------------------------------------------
(* Faulty variant: what is open at the end stays open. *)
NothingOpen(stack) == FALSE

StillOpen(stack) == stack # <<>>

(* "Close any remaining open elements". *)
EndBody ==
  /\ mode = "body" /\ pos > Len(wmlc)
  /\ IF StillOpen(elementStack)
     THEN CloseInnermost /\ UNCHANGED mode
     ELSE mode' = "done" /\ UNCHANGED <<elementStack, outPos, written>>
  /\ UNCHANGED <<pageVars, pos, elem>>

Decompile ==
  \/ Prologue
  \/ SkipToken \/ EndElement \/ WriteText \/ Opaque \/ Literal \/ Element
  \/ EndAttributes \/ StartAttribute \/ AttributeText \/ EndValue
  \/ EndBody

----------------------------------------------------------------------------
(* Correctness *)

(* Every write leaves room for the terminating zero, in any buffer. *)
OutputBounded == outPos > 0 => outPos < outputSize

(* The tags written for any input, complete or not, with END tokens        *)
(* missing or too many: an element that the stack had no room for never    *)
(* gets its end tag, and all others do; no end tag is without its start    *)
(* tag; and none is out of turn, unless elements nested too deep.  (A tag  *)
(* for which the output has no room is counted as written.)                *)
TagsMatch ==
  /\ ~written.stray
  /\ written.crossed => written.deep > 0
  /\ mode = "done" => Len(written.open) = written.deep

============================================================================
