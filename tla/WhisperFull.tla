---------------------------- MODULE WhisperFull ----------------------------
(***************************************************************************)
(* whisper_full_with_state as fullTranscribe calls it: greedy sampling with*)
(* BestOf decoders above temperature 0, no history from earlier calls, no  *)
(* callbacks.  The audio is decoded window by window; a window is decoded  *)
(* again at the next temperature when its best decoder has failed; all     *)
(* decoders share one self-attention (KV) cache, told apart by sequence id.*)
(*                                                                         *)
(* Time is counted in steps of a timestamp token, two frames.  Of a token  *)
(* only its kind is kept, of a probability the comparisons it decides.     *)
(***************************************************************************)
EXTENDS Integers, Sequences, FiniteSets, FiniteSetsExt

CONSTANTS
  TextCtx,      \* n_text_ctx
  InitLens,     \* lengths prompt_init may have: with the language and task, or without
  BestOf,       \* greedy.best_of
  Temperatures, \* how many temperatures there are
  Cutoff,       \* how many of them lie below WHISPER_HISTORY_CONDITIONING_TEMP_CUTOFF
  Window,       \* WHISPER_CHUNK_SIZE
  DeltaMin,     \* delta_min
  ShortRest,         \* what is left of the audio when the history is dropped
  MaxInitial,   \* max_initial_ts
  EntropyLen,   \* the length above which a sequence is tested for repetition
  Padding,      \* what n_text_ctx is padded to a multiple of for the cache
  Lengths       \* bound: the lengths of the audio

ASSUME ContextAssumption == TextCtx \in Nat /\ TextCtx >= 10 /\ InitLens \subseteq 1 .. 4
ASSUME DecoderAssumption == BestOf \in Nat \ {0} /\ Temperatures \in Nat \ {0}
ASSUME PaddingAssumption == Padding \in Nat \ {0}
ASSUME TimeAssumption == Window \in Nat \ {0} /\ DeltaMin \in Nat /\ Lengths \subseteq Nat

VARIABLES
  pc,         \* where the call is
  initLen,    \* the length of prompt_init
  emptyModel, \* n_loaded is 0: the file ended before its first tensor
  end, seek,  \* seek_end, seek
  past,       \* the length of prompt_past1
  it, i,      \* the temperature, the token
  prompt,     \* the length of the prompt
  best,       \* best_decoder_id
  decoders,   \* state->decoders
  kvDecoders, \* kv_self_n_dec
  cells,      \* the occupied cells of kv_self
  head,       \* kv_self.head
  batch,      \* the batch decoded last: one row of logits each
  i_batch     \* the row each decoder reads

InWindow == {"prompt", "sample", "next", "rank", "output", "noSlot"}
Control == InWindow \cup {"idle", "window", "freed"}

call == <<initLen, emptyModel, end>>
window == <<seek, past>>
loops == <<it, i, prompt, best>>
cache == <<kvDecoders, cells, head, batch, i_batch>>
vars == <<pc, call, window, loops, decoders, cache>>

Decoder == 0 .. BestOf - 1
Decoders == IF it = 0 THEN 1 ELSE BestOf   \* n_decoders_cur
Decoding == 0 .. Decoders - 1

MaxPrompt == TextCtx \div 2   \* max_prompt_ctx
NMax == TextCtx \div 2 - 4

Text == -2
Eot == -1
Timestamp == 0 .. Window
Token == {Text, Eot} \cup Timestamp

Fresh == [tokens |-> <<>>, result_len |-> 0, seek_delta |-> Window, has_ts |-> FALSE,
          failed |-> FALSE, completed |-> FALSE]
AtWork(d) == ~d.failed /\ ~d.completed
Active == {j \in Decoding : AtWork(decoders[j])}

Goto(from, to) == pc = from /\ pc' = to
Smaller(a, b) == IF a < b THEN a ELSE b

-----------------------------------------------------------------------------
(* The KV cache: cells[c] is the position, the sequences that see it, and  *)
(* whose token it holds (a decoder's, or -1 for the prompt's).             *)

NoCells == [c \in {} |-> <<>>]
PaddedCtx == ((TextCtx + Padding - 1) \div Padding) * Padding

\* Mutant: the cache is not overallocated.
SizeFlat(n) == PaddedCtx

Size(n) == PaddedCtx * (IF n > 1 THEN n + 2 ELSE 1)

\* find_slot: the first run of n free cells from head on, else from the start.
FreeRuns(kv, size, n) ==
  {h \in 0 .. size - n : \A c \in h .. h + n - 1 : c \notin DOMAIN kv}
Slot(runs, from) ==
  LET ahead == {h \in runs : h >= from} IN Min(IF ahead = {} THEN runs ELSE ahead)

\* The rows take their place at h.
Filled(kv, h, rows) ==
  [c \in DOMAIN kv \cup h .. h + Len(rows) - 1 |->
     IF c \in DOMAIN kv THEN kv[c]
     ELSE LET row == rows[c - h + 1] IN [pos |-> row.pos, seqs |-> {row.seq}, of |-> row.of]]

\* Mutant: the others do not see the prompt.
SharedNever(kv, js) == kv

\* seq_cp of the first decoder's sequence for the others.
Shared(kv, js) ==
  [c \in DOMAIN kv |-> IF 0 \in kv[c].seqs THEN [kv[c] EXCEPT !.seqs = @ \cup js] ELSE kv[c]]

-----------------------------------------------------------------------------
Init ==
  /\ pc = "idle"
  /\ initLen \in InitLens /\ emptyModel \in BOOLEAN
  /\ end = 0 /\ seek = 0 /\ past = 0
  /\ it = 0 /\ i = 0 /\ prompt = 0 /\ best = 0
  /\ decoders = [j \in Decoder |-> Fresh]
  /\ kvDecoders = 1 /\ cells = NoCells /\ head = 0 /\ batch = <<>>
  /\ i_batch = [j \in Decoder |-> 1]

\* Audio shorter than delta_min is not looked at.
Call(length) ==
  /\ Goto("idle", IF length < DeltaMin THEN "idle" ELSE "window")
  /\ end' = length /\ seek' = 0 /\ past' = 0
  /\ UNCHANGED <<initLen, emptyModel, loops, decoders, cache>>

\* Mutant: best_decoder_id is declared outside the loop.
EncodeKeepsBest ==
  /\ Goto("window", IF seek + DeltaMin >= end THEN "idle" ELSE "prompt")
  /\ past' = IF seek > 0 /\ seek + ShortRest >= end THEN 0 ELSE past
  /\ it' = 0 /\ i' = 0 /\ prompt' = 0
  /\ decoders' = [j \in Decoder |-> Fresh]
  /\ UNCHANGED <<call, seek, best, cache>>

\* A new window, unless hardly anything is left.  What the decoders hold from
\* the last one is not looked at again (BestDecodedNow) and forgotten here.
Encode ==
  /\ Goto("window", IF seek + DeltaMin >= end THEN "idle" ELSE "prompt")
  /\ past' = IF seek > 0 /\ seek + ShortRest >= end THEN 0 ELSE past
  /\ it' = 0 /\ i' = 0 /\ best' = 0 /\ prompt' = 0
  /\ decoders' = [j \in Decoder |-> Fresh]
  /\ UNCHANGED <<call, seek, cache>>

\* Mutant: the whole history goes into the prompt.
HistoryUncapped == IF it < Cutoff /\ past > 0 THEN 1 + past ELSE 0

\* How much of the history goes into the prompt, its marker included.
History == IF it < Cutoff /\ past > 0 THEN 1 + Smaller(MaxPrompt - 1, past) ELSE 0

\* One iteration: decoders and cache are cleared, the prompt is decoded for the
\* first decoder and its cells and logits are copied to the others.
DecodePrompt ==
  LET n == History + initLen
      rows == [k \in 1 .. n |-> [seq |-> 0, pos |-> k - 1, of |-> -1]]
      runs == FreeRuns(NoCells, Size(kvDecoders'), n)
  IN  /\ kvDecoders' = IF kvDecoders < Decoders THEN Decoders ELSE kvDecoders
      /\ Goto("prompt", IF runs = {} THEN "noSlot" ELSE "sample")
      /\ prompt' = n /\ i' = 0
      /\ decoders' = [j \in Decoder |-> IF j \in Decoding THEN Fresh ELSE decoders[j]]
      /\ i_batch' = [j \in Decoder |-> IF j \in Decoding THEN n ELSE i_batch[j]]
      /\ batch' = rows
      /\ head' = 0
      /\ cells' = IF runs = {} THEN NoCells
                  ELSE Shared(Filled(NoCells, Slot(runs, 0), rows), Decoding)
      /\ UNCHANGED <<call, window, it, best>>

\* The cache cannot be enlarged: the state is freed, the context keeps the
\* pointer, and a further call on it is undefined.
CacheFails ==
  /\ kvDecoders < Decoders
  /\ Goto("prompt", "freed")
  /\ UNCHANGED <<call, window, loops, decoders, cache>>

\* Computing a graph fails, or there is no slot: -6, -8 or -9.
Fail ==
  /\ \E from \in {"window", "prompt", "next", "noSlot"} : Goto(from, "idle")
  /\ UNCHANGED <<call, window, loops, decoders, cache>>

-----------------------------------------------------------------------------
(* Sampling.                                                               *)

AtEnd(d) == seek + d.seek_delta + DeltaMin >= end

\* What process_logits leaves to choose from: no end before the first token,
\* timestamps in pairs or before the end, the first one early, none decreasing.
Allowed(d) ==
  LET n == Len(d.tokens)
      last == n > 0 /\ d.tokens[n] \in Timestamp
      penultimate == n < 2 \/ d.tokens[n - 1] \in Timestamp
  IN  {t \in Token :
         /\ t = Eot => n > 0
         /\ t \in Timestamp =>
              /\ ~(last /\ penultimate)
              /\ n = 0 => t <= MaxInitial
              /\ d.has_ts => t >= d.seek_delta
         /\ t = Text => ~(last /\ ~penultimate)}

\* Mutant: <|0.00|> counts as a timestamp to go on from.
MovedAnyTimestamp(d, t) ==
  IF t \in Timestamp
  THEN [d EXCEPT !.seek_delta = t, !.result_len = i + 1, !.has_ts = TRUE] ELSE d

\* A timestamp after <|0.00|> moves the window.
Moved(d, t) ==
  IF t > 0 THEN [d EXCEPT !.seek_delta = t, !.result_len = i + 1, !.has_ts = TRUE] ELSE d

Failing(d) == [d EXCEPT !.failed = TRUE]
Completing(d) == [d EXCEPT !.completed = TRUE]

\* Mutant: without a timestamp the result is taken to end one token further.
EndedBeyond(d) ==
  CASE d.result_len > 0 -> Completing(d)
    [] d.result_len = 0 /\ AtEnd(d) -> Completing([d EXCEPT !.result_len = i + 2])
    [] OTHER -> Failing(d)

\* The end of the text, or of the audio.
Ended(d) ==
  CASE d.result_len > 0 -> Completing(d)
    [] d.result_len = 0 /\ AtEnd(d) -> Completing([d EXCEPT !.result_len = i + 1])
    [] OTHER -> Failing(d)

\* The decoder with token t: it went back in time, has ended, is one of an empty
\* model, has filled the context without getting far, or goes on.
Updated(old, t) ==
  LET d == [old EXCEPT !.tokens = Append(@, t)]
      m == Moved(d, t)
      back == t > 0 /\ d.has_ts /\ d.seek_delta > t /\ d.result_len < i
      stuck == i = NMax - 1 /\ (m.result_len = 0 \/ 2 * m.seek_delta < Window)
  IN  CASE back -> Failing(d)
        [] ~back /\ (t = Eot \/ (m.has_ts /\ AtEnd(m))) -> Ended(m)
        [] OTHER -> IF emptyModel THEN Completing([m EXCEPT !.seek_delta = Window])
                    ELSE IF stuck THEN Failing(m) ELSE m

\* Every decoder at work samples a token, on as many threads.
Sample ==
  /\ \E pick \in [Active -> Token] :
       /\ \A j \in Active : pick[j] \in Allowed(decoders[j])
       /\ decoders' = [j \in Decoder |->
            IF j \in Active THEN Updated(decoders[j], pick[j]) ELSE decoders[j]]
  /\ Goto("sample", IF \E j \in Decoding : AtWork(decoders'[j]) THEN "next" ELSE "rank")
  /\ UNCHANGED <<call, window, loops, cache>>

\* The batch has one row for each decoder still at work, in their order.
Row(j) == Cardinality({k \in Active : k <= j})

DecodeTokens ==
  LET at(k) == CHOOSE j \in Active : Row(j) = k
      rows == [k \in 1 .. Cardinality(Active) |-> [seq |-> at(k), pos |-> prompt + i, of |-> at(k)]]
      runs == FreeRuns(cells, Size(kvDecoders), Len(rows))
  IN  /\ Goto("next", IF runs = {} THEN "noSlot" ELSE IF i + 1 = NMax THEN "rank" ELSE "sample")
      /\ batch' = rows
      /\ i' = i + 1
      /\ i_batch' = [j \in Decoder |-> IF j \in Active THEN Row(j) ELSE i_batch[j]]
      /\ IF runs = {} THEN UNCHANGED <<cells, head>>
         ELSE /\ head' = Slot(runs, head)
              /\ cells' = Filled(cells, head', rows)
      /\ UNCHANGED <<call, window, it, prompt, best, decoders, kvDecoders>>

-----------------------------------------------------------------------------
(* Ranking, fallback and output.                                           *)

Cut(d) == [d EXCEPT !.tokens = SubSeq(@, 1, d.result_len)]

\* Decoders that have not failed are cut to their results, some found repetitive;
\* the best score wins, a sequence without a result has none.  Unless this was the
\* last temperature, a failed or improbable best one is decoded anew.
Rank ==
  LET good == {j \in Decoding : ~decoders[j].failed}
      scored == {j \in good : decoders[j].result_len > 0}
  IN  \E repetitive \in SUBSET {j \in good : decoders[j].result_len > EntropyLen} :
      \E unsure \in BOOLEAN :
        /\ best' \in (IF scored \subseteq repetitive THEN {best} ELSE scored \ repetitive)
        /\ decoders' = [j \in Decoder |->
             CASE j \in repetitive -> Failing(Cut(decoders[j]))
               [] j \in good \ repetitive -> Cut(decoders[j])
               [] OTHER -> decoders[j]]
        /\ LET again == it < Temperatures - 1 /\ (decoders'[best'].failed \/ unsure)
           IN  /\ Goto("rank", IF again THEN "prompt" ELSE "output")
               /\ it' = IF again THEN it + 1 ELSE it
        /\ i' = 0
        /\ UNCHANGED <<call, window, prompt, cache>>

\* Mutant: prompt_past1 is not cleared before the prompt is put back.
OutputKeepsPast ==
  LET d == decoders[best]
      n == Len(d.tokens)
      lone == n > 1 /\ d.tokens[n - 1] \notin Timestamp /\ d.tokens[n] > 0
      taken == IF prompt > initLen THEN prompt - initLen - 1 ELSE 0
  IN  /\ Goto("output", "window")
      /\ past' \in {past + taken, past + taken + d.result_len}
      /\ seek' = seek + (IF lone THEN Smaller(end - seek, Window) ELSE d.seek_delta)
      /\ UNCHANGED <<call, loops, decoders, cache>>

\* The result's tokens join the history, if there was speech, and the window
\* moves behind the last timestamp; a lone one at the end skips the whole chunk.
Output ==
  LET d == decoders[best]
      n == Len(d.tokens)
      lone == n > 1 /\ d.tokens[n - 1] \notin Timestamp /\ d.tokens[n] > 0
      taken == IF prompt > initLen THEN prompt - initLen - 1 ELSE 0
  IN  /\ Goto("output", "window")
      /\ past' \in {taken, taken + d.result_len}
      /\ seek' = seek + (IF lone THEN Smaller(end - seek, Window) ELSE d.seek_delta)
      /\ UNCHANGED <<call, loops, decoders, cache>>

Next ==
  \/ \E length \in Lengths : Call(length)
  \/ Encode \/ DecodePrompt \/ Sample \/ DecodeTokens \/ Rank \/ Output
  \/ CacheFails \/ Fail

\* A step of a call under way: each of them changes pc.
Running == pc \notin {"idle", "freed"} /\ \E to \in Control : pc' = to

\* The thread that has called whisper_full runs.
Spec == Init /\ [][Next]_vars /\ WF_pc(Running)

-----------------------------------------------------------------------------
DecoderState == [tokens : Seq(Token), result_len : Nat, seek_delta : Nat,
                 has_ts : BOOLEAN, failed : BOOLEAN, completed : BOOLEAN]

\* The types of the call and of its loops; a history and a result never outgrow
\* the context (whisper.cpp:6897, 7175, 7582-7592).
TypeOK ==
  /\ pc \in Control
  /\ initLen \in InitLens /\ emptyModel \in BOOLEAN
  /\ end \in Nat /\ seek \in Nat
  /\ past \in 0 .. TextCtx
  /\ prompt \in 0 .. TextCtx
  /\ it \in 0 .. Temperatures - 1 /\ i \in 0 .. NMax
  /\ best \in Decoder
  /\ decoders \in [Decoder -> DecoderState]

\* No token is decoded at a position the model has no embedding for, however the
\* history, prompt_init and n_max add up (whisper.cpp:6897, 7175, 7432).
PositionsFit == \A k \in DOMAIN batch : batch[k].pos < TextCtx

\* The cache, cleared for every iteration and enlarged with the number of
\* decoders, has room for every batch (whisper.cpp:1019-1064, 7113-7133).
SlotFound == pc # "noSlot"

\* When a decoder samples, the logits it looks at come from a row that saw the
\* prompt and the decoder's own tokens, each once, and nothing of the other
\* decoders or of earlier iterations (whisper.cpp:2909-2924, 7154-7169, 7430-7446).
SeesOwnHistory ==
  pc = "sample" =>
    \A j \in Active :
      LET n == Len(decoders[j].tokens)
          row == batch[i_batch[j]]
          view == {c \in DOMAIN cells : row.seq \in cells[c].seqs /\ cells[c].pos <= row.pos}
      IN  /\ Cardinality(view) = prompt + n
          /\ {<<cells[c].pos, cells[c].of>> : c \in view} =
               {<<k, -1>> : k \in 0 .. prompt - 1} \cup {<<prompt + k, j>> : k \in 0 .. n - 1}

\* The decoder whose text becomes the result was decoded in the iteration that
\* ended the fallback, also when all have failed (whisper.cpp:7023, 7503-7548).
BestDecodedNow == pc = "output" => best \in Decoding

\* The result lies within the decoder's tokens (whisper.cpp:7569, 7587-7592).
ResultInTokens ==
  \A j \in Decoding : decoders[j].result_len <= Len(decoders[j].tokens)

\* A decoder whose result is within n_max and within its tokens.
Sound(d) ==
  d \in DecoderState /\ d.result_len <= NMax /\ d.result_len <= Len(d.tokens)

\* The inductive invariant of the proofs: the prompt has room for prompt_init,
\* the loop over tokens ends at NMax, a decoder at work has a token for every
\* iteration of it, and a window under way begins before the end of the audio.
IInv ==
  /\ TypeOK
  /\ PositionsFit
  /\ prompt <= MaxPrompt + initLen
  /\ pc \in {"sample", "next"} => i < NMax
  /\ \A j \in Decoder : Sound(decoders[j])
  /\ pc = "sample" => \A j \in Active : Len(decoders[j].tokens) = i
  /\ pc = "next" => \A j \in Active : Len(decoders[j].tokens) = i + 1
  /\ pc \in InWindow => seek < end /\ best \in Decoding

\* The inductive invariant of the cache, during the loop over tokens.  Its cells are
\* occupied from the start on; first come the prompt's, which all decoders see, then
\* each sampled token's once, which only its decoder sees.
Generated == DOMAIN cells \ 0 .. prompt - 1
TokenCell(k, j) == [pos |-> prompt + k, seqs |-> {j}, of |-> j]

CellsInv ==
  /\ kvDecoders >= Decoders
  /\ \E used \in prompt .. prompt + Decoders * i :
       DOMAIN cells = 0 .. used - 1 /\ head \in 0 .. used
  /\ \A c \in 0 .. prompt - 1 : cells[c] = [pos |-> c, seqs |-> Decoding, of |-> -1]
  /\ \A c \in Generated : \E j \in Decoding, k \in 0 .. i - 1 : cells[c] = TokenCell(k, j)
  /\ \A c, e \in Generated : cells[c] = cells[e] => c = e
  /\ \A j \in Active, k \in 0 .. i - 1 : \E c \in Generated : cells[c] = TokenCell(k, j)

\* The row whose logits a decoder samples from is its own, the prompt's at first.
RowsInv ==
  \A j \in Active :
    /\ i_batch[j] \in DOMAIN batch
    /\ batch[i_batch[j]].pos = prompt + i - 1
    /\ batch[i_batch[j]].seq = IF i = 0 THEN 0 ELSE j

CacheInv ==
  /\ kvDecoders \in 1 .. BestOf
  /\ SlotFound
  /\ pc = "next" => Active # {}
  /\ pc \in {"sample", "next"} => CellsInv
  /\ pc = "sample" => RowsInv

\* Whatever is sampled, whisper_full returns: every window moves on
\* (whisper.cpp:6990-7729).
TranscribeReturns == pc # "idle" ~> pc \in {"idle", "freed"}

=============================================================================
