-------------------------------- MODULE TraceIR --------------------------------
(***************************************************************************)
(* The unified Trace IR of agentinfer/agentbench/replay: a converter       *)
(* (converters/tracelab.py, converters/codex_swebenchpro.py) writes        *)
(* requests.jsonl, and texts/ for text turns, then publishes a manifest    *)
(* through a temporary file; validate_trace_ir() re-reads everything       *)
(* before the Replay uses it.  The process may die between any two steps,  *)
(* and the files may change after they were published.                     *)
(*                                                                         *)
(* A digest stands for what it is the digest of.                           *)
(***************************************************************************)
EXTENDS Integers, Sequences, FiniteSets, SequencesExt

CONSTANTS
  Kind,        \* "token_recipe" (TraceLab) or "text_turns" (Codex)
  Session,     \* source sessions, numbers
  Lines,       \* bound: lines of the source
  MaxRound,    \* bound: round_index, or turns of a conversation
  MaxTokens,   \* bound: prefix_tokens and input_tokens_total
  None

VARIABLES
  phase,       \* where the run is
  source,      \* the source file: a sequence of [session, round, prefix, input]
  rows,        \* requests.jsonl
  texts,       \* files under texts/
  manifest,    \* the published manifest, or None
  temporary,   \* the temporary manifest, or None
  clean        \* nobody changed the files after they were published

vars == <<phase, source, rows, texts, manifest, temporary, clean>>

Line == [session : Session, round : 0..MaxRound, prefix : 0..MaxTokens, input : 1..MaxTokens]

Init ==
  /\ phase = "read"
  /\ source \in UNION {[1..n -> Line] : n \in 1..Lines}
  /\ rows = << >> /\ texts = {}
  /\ manifest = None /\ temporary = None
  /\ clean = TRUE
-----------------------------------------------------------------------------
(* TraceLabConverter.convert(), CodexSwebenchProConverter.convert()        *)

LinesOf(s) == {i \in DOMAIN source : source[i].session = s}
Used == {s \in Session : LinesOf(s) # {}}

\* No round twice, and the rounds of a session are 0, 1, ...
SourceOK ==
  /\ \A i, j \in DOMAIN source : i # j => <<source[i].session, source[i].round>> # <<source[j].session, source[j].round>>
  /\ \A s \in Used : {source[i].round : i \in LinesOf(s)} = 0..(Cardinality(LinesOf(s)) - 1)

\* The rows of the IR: sessions in order, the rounds of each in order, each
\* after the one before it.
RowOf(l) == [id |-> <<l.session, l.round>>, session |-> l.session, sequence |-> l.round, prefix |-> l.prefix,
             input |-> l.input, after |-> IF l.round = 0 THEN None ELSE <<l.session, l.round - 1>>]
Ordered == SetToSortSeq({RowOf(source[i]) : i \in DOMAIN source},
                        LAMBDA a, b : a.session < b.session \/ (a.session = b.session /\ a.sequence < b.sequence))

Read ==
  /\ phase = "read"
  /\ phase' = IF SourceOK THEN "write" ELSE "failed"
  /\ UNCHANGED <<source, rows, texts, manifest, temporary, clean>>

TextOf(row) == {row.id}

\* One row; with text turns its human text is written before it.  A turn
\* without a positive token count ends the conversion there.
WriteRow ==
  LET row == Ordered[Len(rows) + 1] IN
  /\ phase = "write"
  /\ Len(rows) < Len(source)
  /\ \/ /\ rows' = Append(rows, row)
        /\ UNCHANGED phase
     \/ /\ Kind = "text_turns"
        /\ phase' = "failed"
        /\ UNCHANGED rows
  /\ texts' = IF Kind = "text_turns" THEN texts \cup TextOf(row) ELSE texts
  /\ UNCHANGED <<source, manifest, temporary, clean>>

\* The first prefixes decide how long the shared warmup has to be.
WarmupTokens(rs) == LET first == {rs[i].prefix : i \in {k \in DOMAIN rs : rs[k].sequence = 0}}
                    IN  1 + CHOOSE n \in first : \A k \in first : k <= n

Inventory == [rows |-> rows, texts |-> texts, requests |-> Len(rows), sessions |-> Cardinality(Used),
              warmup |-> WarmupTokens(Ordered)]

AllWritten == Len(rows) = Len(source)

\* write_trace_ir_manifest(): inventory, temporary file, rename.
WriteTemporary ==
  /\ phase = "write"
  /\ AllWritten
  /\ temporary' = Inventory
  /\ phase' = "publish"
  /\ UNCHANGED <<source, rows, texts, manifest, clean>>

Publish ==
  /\ phase = "publish"
  /\ manifest' = temporary
  /\ temporary' = None
  /\ phase' = "validate"
  /\ UNCHANGED <<source, rows, texts, clean>>
-----------------------------------------------------------------------------
(* The process dies; the files change; somebody validates.                 *)

Crash ==
  /\ phase \in {"write", "publish"}
  /\ phase' = "validate"
  /\ UNCHANGED <<source, rows, texts, manifest, temporary, clean>>

FilesChange ==
  /\ phase = "validate"
  /\ clean
  /\ clean' = FALSE
  /\ \/ rows # << >> /\ rows' = Front(rows) /\ UNCHANGED texts
     \/ \E t \in texts : texts' = texts \ {t} /\ UNCHANGED rows
  /\ UNCHANGED <<phase, source, manifest, temporary>>

\* The files are the ones the manifest lists.
FilesMatch == rows = manifest.rows /\ texts = manifest.texts

Contiguous(S) == S = 0..(Cardinality(S) - 1)
Sequences(s) == {rows[i].sequence : i \in {k \in DOMAIN rows : rows[k].session = s}}
LastOf(i) ==
  LET earlier == {k \in 1..(i - 1) : rows[k].session = rows[i].session}
  IN  IF earlier = {} THEN None ELSE rows[CHOOSE k \in earlier : \A j \in earlier : j <= k].id

\* The token_recipe checks of each line: a unique id and sequence, the
\* previous request of the session as context, a prefix inside the input.
RecipeRowOK(i) ==
  LET r == rows[i] IN
  /\ \A k \in 1..(i - 1) : rows[k].id # r.id /\ (rows[k].session = r.session => rows[k].sequence # r.sequence)
  /\ r.after = IF r.sequence = 0 THEN None ELSE LastOf(i)
  /\ r.prefix <= r.input

\* The text_turns checks: every row refers to its own manifested text.
TextRowOK(i) == rows[i].id \in manifest.texts /\ \A k \in 1..(i - 1) : rows[k].id # rows[i].id

RowsOK ==
  IF Kind = "token_recipe"
  THEN (\A i \in DOMAIN rows : RecipeRowOK(i)) /\ manifest.warmup = WarmupTokens(rows)
  ELSE (\A i \in DOMAIN rows : TextRowOK(i)) /\ {rows[i].id : i \in DOMAIN rows} = manifest.texts

SummaryOK ==
  /\ manifest.requests = Len(rows)
  /\ manifest.sessions = Cardinality({rows[i].session : i \in DOMAIN rows})
  /\ \A s \in Session : Sequences(s) # {} => Contiguous(Sequences(s))

Validate ==
  /\ phase = "validate"
  /\ phase' = IF manifest # None /\ FilesMatch /\ RowsOK /\ SummaryOK THEN "accepted" ELSE "rejected"
  /\ UNCHANGED <<source, rows, texts, manifest, temporary, clean>>

Stops == phase \in {"failed", "accepted", "rejected"} /\ UNCHANGED vars

Next == Read \/ WriteRow \/ WriteTemporary \/ Publish \/ Crash \/ FilesChange \/ Validate \/ Stops

Spec == Init /\ [][Next]_vars
-----------------------------------------------------------------------------
\* What validate_trace_ir() accepts is the whole source and nothing else,
\* wherever the conversion died and whatever happened to the files since: the
\* rows of every round and the text of every turn.
AcceptedIsComplete ==
  phase = "accepted" =>
    /\ {rows[i].id : i \in DOMAIN rows} = {<<source[i].session, source[i].round>> : i \in DOMAIN source}
    /\ Kind = "text_turns" => texts = {rows[i].id : i \in DOMAIN rows}

\* Whatever a converter publishes from a source it accepts passes the
\* validation, whose checks are stricter than the converter's only in that a
\* prefix must lie inside its input.
PublishedValidates ==
  phase = "rejected" /\ clean /\ manifest # None =>
    Kind = "token_recipe" /\ \E i \in DOMAIN source : source[i].prefix > source[i].input

\* prepare_tracelab_warmup() reads the warmup's token after the prefix of every
\* root (prompt.py:661): it is there in every accepted IR.
WarmupHasBranchToken ==
  phase = "accepted" /\ Kind = "token_recipe" =>
    \A i \in DOMAIN rows : rows[i].sequence = 0 => rows[i].prefix < manifest.warmup
===============================================================================
