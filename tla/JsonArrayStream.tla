---------------------------- MODULE JsonArrayStream ----------------------------
(***************************************************************************)
(* _iter_json_array_chunks() of converters/codex_swebenchpro.py: a JSON    *)
(* array of objects is parsed while it arrives in chunks, from a file or   *)
(* from the network, and every complete object is yielded at once.         *)
(*                                                                         *)
(* The text is a sequence of characters; "{" "}" is an object with nothing *)
(* in it, "_" a space, "1" a number.  An object may be cut anywhere.       *)
(***************************************************************************)
EXTENDS Naturals, Sequences, SequencesExt

CONSTANTS
  Texts,    \* the texts to parse
  None

VARIABLES
  text,         \* what the source holds
  fed,          \* characters handed over in chunks so far
  buffer, position, started, finished, expect_value, after_comma,
  yielded,      \* objects yielded
  verdict       \* None, "ok" or "error"

parser == <<buffer, position, started, finished, expect_value, after_comma>>
vars == <<text, fed, parser, yielded, verdict>>

Init ==
  /\ text \in Texts
  /\ fed = 0
  /\ buffer = << >> /\ position = 0
  /\ started = FALSE /\ finished = FALSE
  /\ expect_value = TRUE /\ after_comma = FALSE
  /\ yielded = 0 /\ verdict = None

Rest == SubSeq(buffer, position + 1, Len(buffer))
Blank(s) == \A i \in DOMAIN s : s[i] = "_"
\* The first character the scan stops at, 0 when only spaces are left.
Here == LET stops == {i \in position + 1 .. Len(buffer) : buffer[i] # "_"}
        IN  IF stops = {} THEN 0 ELSE CHOOSE i \in stops : \A j \in stops : i <= j

\* raw_decode() at that character: where the object ends, 0 when there is no
\* complete value yet.
DecodeEnd ==
  LET closing == {i \in Here + 1 .. Len(buffer) : buffer[i] # "_"} IN
  IF buffer[Here] = "{" /\ closing # {} /\ buffer[CHOOSE i \in closing : \A j \in closing : i <= j] = "}"
  THEN CHOOSE i \in closing : \A j \in closing : i <= j ELSE 0
-----------------------------------------------------------------------------
\* The outer loop asks for the next chunk when the inner one broke off; the
\* end of the source is an empty chunk.
Wants ==
  /\ verdict = None /\ ~finished
  /\ IF Here = 0 THEN TRUE
     ELSE started /\ expect_value /\ buffer[Here] \notin {"]", "1"} /\ DecodeEnd = 0

Refill(chunk) == Rest \o chunk

\* Every non-empty chunk, of any size; at the end one empty chunk.
Feed ==
  /\ Wants
  /\ fed < Len(text)
  /\ \E n \in 1 .. Len(text) - fed :
       /\ buffer' = Refill(SubSeq(text, fed + 1, fed + n))
       /\ fed' = fed + n
  /\ position' = 0
  /\ UNCHANGED <<text, started, finished, expect_value, after_comma, yielded, verdict>>

\* The source is exhausted: an incomplete value or a missing bracket.
EndOfSource ==
  /\ Wants
  /\ fed = Len(text)
  /\ verdict' = "error"
  /\ UNCHANGED <<text, fed, parser, yielded>>

Busy == verdict = None /\ ~finished /\ Here # 0 /\ ~Wants

Start ==
  /\ Busy /\ ~started
  /\ IF buffer[Here] = "["
     THEN started' = TRUE /\ position' = Here /\ UNCHANGED verdict
     ELSE verdict' = "error" /\ UNCHANGED <<started, position>>
  /\ UNCHANGED <<text, fed, buffer, finished, expect_value, after_comma, yielded>>

AfterComma == TRUE

\* A closing bracket is fine after an element and in an empty array.
CloseArray ==
  /\ Busy /\ started /\ buffer[Here] = "]"
  /\ IF expect_value /\ after_comma
     THEN verdict' = "error" /\ UNCHANGED <<position, finished>>
     ELSE position' = Here /\ finished' = TRUE /\ UNCHANGED verdict
  /\ UNCHANGED <<text, fed, buffer, started, expect_value, after_comma, yielded>>

Element ==
  /\ Busy /\ started /\ expect_value /\ buffer[Here] # "]"
  /\ IF DecodeEnd # 0
     THEN /\ yielded' = yielded + 1
          /\ position' = DecodeEnd
          /\ expect_value' = FALSE /\ after_comma' = FALSE
          /\ UNCHANGED verdict
     ELSE verdict' = "error" /\ UNCHANGED <<yielded, position, expect_value, after_comma>>
  /\ UNCHANGED <<text, fed, buffer, started, finished>>

Separator ==
  /\ Busy /\ started /\ ~expect_value /\ buffer[Here] # "]"
  /\ IF buffer[Here] = ","
     THEN position' = Here /\ expect_value' = TRUE /\ after_comma' = AfterComma /\ UNCHANGED verdict
     ELSE verdict' = "error" /\ UNCHANGED <<position, expect_value, after_comma>>
  /\ UNCHANGED <<text, fed, buffer, started, finished, yielded>>

\* Nothing but spaces may follow, in the buffer or in the chunks to come.
NothingFollows == Blank(Rest) /\ Blank(SubSeq(text, fed + 1, Len(text)))

Finish ==
  /\ verdict = None /\ finished
  /\ verdict' = IF NothingFollows THEN "ok" ELSE "error"
  /\ UNCHANGED <<text, fed, parser, yielded>>

Next == Feed \/ EndOfSource \/ Start \/ CloseArray \/ Element \/ Separator \/ Finish

Spec == Init /\ [][Next]_vars
-----------------------------------------------------------------------------
(* The grammar: "[" {} , {} , ... "]" with spaces anywhere.                *)

Canonical(k) == IF k = 0 THEN <<"[", "]">>
                ELSE [i \in 1 .. 3 * k + 1 |-> CASE i = 1 -> "[" [] i = 3 * k + 1 -> "]"
                                                 [] i % 3 = 1 /\ i > 1 -> "," [] i % 3 = 2 -> "{" [] OTHER -> "}"]
Solid == SelectSeq(text, LAMBDA c : c # "_")
Accepted == \E k \in 0 .. Len(text) : Solid = Canonical(k)
Complete == {k \in 1 .. Len(text) : IsPrefix(SubSeq(Canonical(k), 1, 3 * k), Solid)}
Objects == IF Complete = {} THEN 0 ELSE CHOOSE k \in Complete : \A j \in Complete : j <= k

\* However the text is cut into chunks, exhausting the iterator accepts
\* exactly the arrays of objects ("Exhausting the iterator validates the
\* whole array").
VerdictIsGrammar == verdict # None => (verdict = "ok" <=> Accepted)

\* The objects yielded are those before the first mistake, each once, however
\* the text is cut.
YieldsAllBeforeError == verdict # None => yielded = Objects
=============================================================================
