------------------------- MODULE WhisperFullProofs -------------------------
(***************************************************************************)
(* whisper_full never decodes a token at a position past the context of    *)
(* the model, and its result never outgrows the tokens it was cut from, for*)
(* every context, audio, number of decoders and length of prompt_init: the *)
(* two halves the context is split into, prompt and tokens, leave room for *)
(* prompt_init because n_max is four tokens short of its half.  The cache  *)
(* always has room, and what a decoder attends to is its own: the cells are*)
(* occupied from the start on, and every decoder has its row of the batch. *)
(***************************************************************************)
EXTENDS WhisperFull, FiniteSetTheorems, TLAPS

\* The arithmetic behind n_max: max_prompt_ctx, prompt_init and n_max tokens fit.
LEMMA Halves ==
  /\ MaxPrompt \in Nat /\ NMax \in Nat \ {0}
  /\ MaxPrompt = NMax + 4
  /\ MaxPrompt + MaxPrompt <= TextCtx
  /\ TextCtx \in Nat
BY ContextAssumption DEF MaxPrompt, NMax

\* The decoders of an iteration are decoders of the state.
LEMMA DecodingInDecoder ==
  /\ Decoding \subseteq Decoder
  /\ 0 \in Decoder
BY DecoderAssumption DEF Decoding, Decoder, Decoders

\* A decoder that is started anew is sound.
LEMMA FreshSound == Sound(Fresh) /\ Len(Fresh.tokens) = 0
<1>1. <<>> \in Seq(Token) /\ Len(<<>>) = 0
  OBVIOUS
<1> QED
  BY <1>1, TimeAssumption, Halves DEF Fresh, DecoderState, Sound

\* What is taken of the history leaves the prompt its half of the context.
LEMMA HistoryBounded == past \in Nat => History \in 0 .. MaxPrompt
BY Halves, ContextAssumption DEF History, Smaller, MaxPrompt

\* Marking a decoder failed or completed leaves it sound.
LEMMA MarkedSound ==
  ASSUME NEW d, Sound(d)
  PROVE  /\ Sound(Failing(d)) /\ Failing(d).tokens = d.tokens
         /\ Sound(Completing(d)) /\ Completing(d).tokens = d.tokens
BY DEF Sound, Failing, Completing, DecoderState

\* So does ending it after the token of iteration i.
LEMMA EndedSound ==
  ASSUME NEW d, Sound(d), Len(d.tokens) = i + 1, i \in Nat, i < NMax
  PROVE  Sound(Ended(d)) /\ Len(Ended(d).tokens) = i + 1
<1> DEFINE e == [d EXCEPT !.result_len = i + 1]
<1>1. Sound(e) /\ e.tokens = d.tokens
  BY Halves, SMTT(30) DEF Sound, DecoderState
<1>2. /\ Sound(Completing(d)) /\ Len(Completing(d).tokens) = i + 1
      /\ Sound(Failing(d)) /\ Len(Failing(d).tokens) = i + 1
  BY MarkedSound
<1>3. Sound(Completing(e)) /\ Len(Completing(e).tokens) = i + 1
  <2> HIDE DEF e
  <2> QED
    BY <1>1, MarkedSound
<1>4. Ended(d) \in {Completing(d), Completing(e), Failing(d)}
  <2>1. d.result_len > 0 \/ d.result_len = 0
    BY DEF Sound, DecoderState
  <2> QED
    BY <2>1 DEF Ended
<1> HIDE DEF e
<1> QED
  BY <1>2, <1>3, <1>4

\* A decoder that takes the token of iteration i is sound and holds i + 1 tokens.
LEMMA UpdatedSound ==
  ASSUME NEW d, Sound(d), NEW t \in Token, Len(d.tokens) = i, i \in Nat, i < NMax
  PROVE  Sound(Updated(d, t)) /\ Len(Updated(d, t).tokens) = i + 1
<1> DEFINE e == [d EXCEPT !.tokens = Append(@, t)]
           m == Moved(e, t)
           h == [m EXCEPT !.seek_delta = Window]
<1>1. Sound(e) /\ Len(e.tokens) = i + 1
  <2> DEFINE s == Append(d.tokens, t)
  <2>1. d.tokens \in Seq(Token) /\ d.result_len \in Nat /\ d.result_len <= i
    BY DEF Sound, DecoderState
  <2>2. s \in Seq(Token) /\ Len(s) = i + 1
    BY <2>1
  <2>3. e = [d EXCEPT !.tokens = s]
    OBVIOUS
  <2> HIDE DEF s, e
  <2>4. e \in DecoderState /\ e.tokens = s /\ e.result_len = d.result_len
    BY <2>2, <2>3 DEF Sound, DecoderState
  <2> QED
    BY <2>1, <2>2, <2>4 DEF Sound
<1>2. Sound(m) /\ Len(m.tokens) = i + 1
  <2> HIDE DEF e
  <2>1. CASE t > 0
    <3>1. t \in Nat
      BY <2>1, TimeAssumption DEF Token, Timestamp, Text, Eot
    <3> DEFINE f == [e EXCEPT !.seek_delta = t]
               g == [f EXCEPT !.result_len = i + 1]
    <3>2. m = [g EXCEPT !.has_ts = TRUE]
      BY <2>1 DEF Moved
    <3> HIDE DEF m, h
    <3>3. f \in DecoderState /\ f.tokens = e.tokens
      BY <1>1, <3>1 DEF Sound, DecoderState
    <3> HIDE DEF f
    <3>4. g \in DecoderState /\ g.tokens = f.tokens /\ g.result_len = i + 1
      BY <3>3 DEF DecoderState
    <3> HIDE DEF g
    <3>5. m \in DecoderState /\ m.tokens = e.tokens /\ m.result_len = i + 1
      BY <3>2, <3>3, <3>4 DEF DecoderState
    <3> QED
      BY <1>1, <3>5, Halves DEF Sound
  <2>2. CASE ~(t > 0)
    BY <1>1, <2>2 DEF Moved
  <2> QED
    BY <2>1, <2>2
<1>3. Sound(h) /\ Len(h.tokens) = i + 1
  <2> HIDE DEF m
  <2> QED
    BY <1>2, TimeAssumption DEF Sound, DecoderState
<1>4. Updated(d, t) \in {Failing(e), Ended(m), Completing(h), Failing(m), m}
  BY DEF Updated
<1> HIDE DEF e, m, h
<1>5. /\ Sound(Failing(e)) /\ Len(Failing(e).tokens) = i + 1
      /\ Sound(Completing(h)) /\ Len(Completing(h).tokens) = i + 1
      /\ Sound(Failing(m)) /\ Len(Failing(m).tokens) = i + 1
  BY <1>1, <1>2, <1>3, MarkedSound
<1>6. Sound(Ended(m)) /\ Len(Ended(m).tokens) = i + 1
  BY <1>2, EndedSound
<1> QED
  BY <1>2, <1>4, <1>5, <1>6

\* A decoder is cut to a result within its tokens.
LEMMA CutSound ==
  ASSUME NEW d, Sound(d)
  PROVE  Sound(Cut(d)) /\ Sound(Failing(Cut(d)))
<1> DEFINE s == SubSeq(d.tokens, 1, d.result_len)
<1>1. /\ d.tokens \in Seq(Token) /\ d.result_len \in Nat
      /\ d.result_len <= Len(d.tokens)
  BY DEF Sound, DecoderState
<1>2. s \in Seq(Token) /\ Len(s) = d.result_len
  BY <1>1
<1>3. Cut(d) = [d EXCEPT !.tokens = s]
  BY DEF Cut
<1> HIDE DEF s
<1>4. Sound(Cut(d))
  BY <1>1, <1>2, <1>3 DEF Sound, DecoderState
<1> QED
  BY <1>4, MarkedSound

-----------------------------------------------------------------------------
(* The steps.  Each keeps the parts of IInv its updates can disturb.       *)

\* The initial states.
LEMMA InitInv == Init => IInv
<1> SUFFICES ASSUME Init PROVE IInv
  OBVIOUS
<1>1. \A j \in Decoder : Sound(decoders[j])
  BY FreshSound DEF Init
<1>2. decoders \in [Decoder -> DecoderState]
  BY <1>1 DEF Init, Sound
<1>3. TypeOK
  BY <1>2, DecodingInDecoder, DecoderAssumption, Halves DEF Init, TypeOK, Control
<1>4. prompt <= MaxPrompt + initLen
  BY Halves, ContextAssumption DEF Init
<1> QED
  BY <1>1, <1>3, <1>4 DEF Init, IInv, PositionsFit, InWindow

\* A step that leaves decoders, batch and the prompt alone and ends the window.
LEMMA CallStep ==
  ASSUME IInv, NEW length \in Lengths, Call(length)
  PROVE  IInv'
<1>1. TypeOK'
  BY TimeAssumption, DecoderAssumption, Halves
     DEF IInv, TypeOK, Call, Goto, Control, loops, call
<1>2. pc' \in {"idle", "window"}
  BY DEF Call, Goto
<1> QED
  BY <1>1, <1>2 DEF IInv, Call, Goto, PositionsFit, InWindow, loops, cache

LEMMA EncodeStep ==
  ASSUME IInv, Encode
  PROVE  IInv'
<1>1. \A j \in Decoder : Sound(decoders'[j])
  BY FreshSound DEF Encode
<1>2. decoders' \in [Decoder -> DecoderState]
  BY <1>1 DEF Encode, Sound
<1>3. TypeOK'
  BY <1>2, DecodingInDecoder, DecoderAssumption, Halves
     DEF IInv, TypeOK, Encode, Goto, Control, InWindow, call
<1>4. pc' \in InWindow => seek' < end' /\ best' \in Decoding'
  BY TimeAssumption DEF IInv, TypeOK, Encode, Goto, InWindow, call, Decoding, Decoders
<1>5. prompt' <= MaxPrompt + initLen'
  BY Halves, ContextAssumption DEF IInv, TypeOK, Encode, call
<1>6. pc' \in {"idle", "prompt"}
  BY DEF Encode, Goto
<1> QED
  BY <1>1, <1>3, <1>4, <1>5, <1>6 DEF IInv, Encode, PositionsFit, cache

\* The prompt takes positions below max_prompt_ctx + 4, within the context.
LEMMA DecodePromptStep ==
  ASSUME IInv, DecodePrompt
  PROVE  IInv'
<1> DEFINE n == History + initLen
<1>1. n \in Nat /\ n <= MaxPrompt + initLen /\ n <= TextCtx
  BY HistoryBounded, Halves, ContextAssumption DEF IInv, TypeOK
<1>2. \A j \in Decoder : Sound(decoders'[j])
  BY FreshSound DEF IInv, DecodePrompt
<1>3. decoders' \in [Decoder -> DecoderState]
  BY <1>2 DEF DecodePrompt, Sound
<1>4. prompt' = n /\ i' = 0 /\ pc' \in {"noSlot", "sample"} /\ pc = "prompt"
  BY DEF DecodePrompt, Goto
<1>5. UNCHANGED <<initLen, emptyModel, end, seek, past, it, best>>
  BY DEF DecodePrompt, call, window
<1> HIDE DEF n
<1>6. TypeOK'
  BY <1>1, <1>3, <1>4, <1>5, Halves DEF IInv, TypeOK, Control, InWindow
<1>7. PositionsFit'
  <2> DEFINE rows == [k \in 1 .. n |-> [seq |-> 0, pos |-> k - 1, of |-> -1]]
  <2>1. batch' = rows
    BY DEF DecodePrompt, n
  <2> QED
    BY <1>1, <2>1, Halves DEF PositionsFit
<1>8. \A j \in Decoding : decoders'[j] = Fresh
  BY DecodingInDecoder DEF DecodePrompt
<1>9. Active' \subseteq Decoding
  BY <1>5 DEF Active, Decoding, Decoders
<1>10. \A j \in Active' : Len(decoders'[j].tokens) = i'
  BY <1>4, <1>8, <1>9, FreshSound
<1>11. pc' \in InWindow => seek' < end' /\ best' \in Decoding'
  BY <1>4, <1>5 DEF IInv, InWindow, Decoding, Decoders
<1> QED
  BY <1>1, <1>2, <1>4, <1>5, <1>6, <1>7, <1>10, <1>11, Halves DEF IInv

\* A sampled token is the (i + 1)-th of its decoder.
LEMMA SampleStep ==
  ASSUME IInv, Sample
  PROVE  IInv'
<1>1. PICK pick \in [Active -> Token] :
        decoders' = [j \in Decoder |->
          IF j \in Active THEN Updated(decoders[j], pick[j]) ELSE decoders[j]]
  BY DEF Sample
<1>2. i \in Nat /\ i < NMax /\ pc = "sample" /\ pc' \in {"next", "rank"}
  BY DEF IInv, TypeOK, Sample, Goto
<1>3. UNCHANGED <<initLen, emptyModel, end, seek, past, it, i, prompt, best, batch>>
  BY DEF Sample, call, window, loops, cache
<1>4. \A j \in Active : j \in Decoder /\ AtWork(decoders[j])
  BY DecodingInDecoder DEF Active
<1>5. \A j \in Active : Sound(decoders'[j]) /\ Len(decoders'[j].tokens) = i + 1
  <2> SUFFICES ASSUME NEW j \in Active
               PROVE  Sound(decoders'[j]) /\ Len(decoders'[j].tokens) = i + 1
    OBVIOUS
  <2>1. Sound(decoders[j]) /\ Len(decoders[j].tokens) = i
    BY <1>2, <1>4 DEF IInv
  <2>2. pick[j] \in Token /\ decoders'[j] = Updated(decoders[j], pick[j])
    BY <1>1, <1>4
  <2> QED
    BY <1>2, <2>1, <2>2, UpdatedSound
<1>6. \A j \in Decoder \ Active : decoders'[j] = decoders[j]
  BY <1>1
<1>7. \A j \in Decoder : Sound(decoders'[j])
  BY <1>5, <1>6 DEF IInv
<1>8. decoders' \in [Decoder -> DecoderState]
  BY <1>1, <1>7 DEF Sound
<1>9. TypeOK'
  BY <1>2, <1>3, <1>8 DEF IInv, TypeOK, Control, InWindow
<1>10. Active' \subseteq Active
  BY <1>3, <1>6, DecodingInDecoder DEF Active, Decoding, Decoders
<1>11. pc' \in InWindow => seek' < end' /\ best' \in Decoding'
  BY <1>2, <1>3 DEF IInv, InWindow, Decoding, Decoders
<1> QED
  BY <1>2, <1>3, <1>5, <1>7, <1>9, <1>10, <1>11 DEF IInv, PositionsFit

\* The tokens of iteration i take the position prompt + i, the last one before
\* the end of the context at most.
LEMMA DecodeTokensStep ==
  ASSUME IInv, DecodeTokens
  PROVE  IInv'
<1> DEFINE at(k) == CHOOSE j \in Active : Row(j) = k
           rows == [k \in 1 .. Cardinality(Active) |-> [seq |-> at(k), pos |-> prompt + i, of |-> at(k)]]
           runs == FreeRuns(cells, Size(kvDecoders), Len(rows))
<1>0. /\ Goto("next", IF runs = {} THEN "noSlot" ELSE IF i + 1 = NMax THEN "rank" ELSE "sample")
      /\ i' = i + 1
      /\ batch' = rows
  BY Zenon DEF DecodeTokens
<1> HIDE DEF runs, rows
<1>1. i \in Nat /\ i < NMax /\ pc = "next" /\ i' = i + 1
  BY <1>0 DEF IInv, TypeOK, Goto
<1>2. pc' \in {"noSlot", "rank", "sample"} /\ (pc' = "sample" => i + 1 < NMax)
  BY <1>0, <1>1, Halves DEF Goto
<1>3. UNCHANGED <<initLen, emptyModel, end, seek, past, it, prompt, best, decoders>>
  BY DEF DecodeTokens, call, window
<1>4. TypeOK'
  BY <1>1, <1>2, <1>3, Halves DEF IInv, TypeOK, Control, InWindow
<1>5. PositionsFit'
  <2>1. prompt + i < TextCtx
    BY <1>1, Halves, ContextAssumption DEF IInv, TypeOK
  <2> HIDE DEF at
  <2> QED
    BY <1>0, <2>1 DEF PositionsFit, rows
<1>6. Active' = Active
  BY <1>3 DEF Active, Decoding, Decoders
<1>7. pc' \in InWindow => seek' < end' /\ best' \in Decoding'
  BY <1>1, <1>3 DEF IInv, InWindow, Decoding, Decoders
<1> QED
  BY <1>1, <1>2, <1>3, <1>4, <1>5, <1>6, <1>7 DEF IInv

\* Ranking cuts the decoders that have not failed and picks one that has a result.
LEMMA RankStep ==
  ASSUME IInv, Rank
  PROVE  IInv'
<1> DEFINE good == {j \in Decoding : ~decoders[j].failed}
           scored == {j \in good : decoders[j].result_len > 0}
<1>1. PICK repetitive \in SUBSET good :
        /\ best' \in (IF scored \subseteq repetitive THEN {best} ELSE scored \ repetitive)
        /\ decoders' = [j \in Decoder |->
             CASE j \in repetitive -> Failing(Cut(decoders[j]))
               [] j \in good \ repetitive -> Cut(decoders[j])
               [] OTHER -> decoders[j]]
  BY DEF Rank
<1>2. PICK unsure \in BOOLEAN :
        LET again == it < Temperatures - 1 /\ (decoders'[best'].failed \/ unsure)
        IN  /\ Goto("rank", IF again THEN "prompt" ELSE "output")
            /\ it' = IF again THEN it + 1 ELSE it
  BY DEF Rank
<1>3. i' = 0 /\ UNCHANGED <<initLen, emptyModel, end, seek, past, prompt, batch>>
  BY DEF Rank, call, window, cache
<1>4. pc = "rank" /\ pc' \in {"prompt", "output"} /\ it' \in 0 .. Temperatures - 1
  BY <1>2, DecoderAssumption DEF IInv, TypeOK, Goto
<1>5. \A j \in Decoder : Sound(decoders'[j])
  <2> SUFFICES ASSUME NEW j \in Decoder PROVE Sound(decoders'[j])
    OBVIOUS
  <2>1. Sound(decoders[j])
    BY DEF IInv
  <2>2. decoders'[j] \in {Failing(Cut(decoders[j])), Cut(decoders[j]), decoders[j]}
    BY <1>1
  <2> QED
    BY <2>1, <2>2, CutSound
<1>6. decoders' \in [Decoder -> DecoderState]
  BY <1>1, <1>5 DEF Sound
<1>7. best' \in Decoder
  BY <1>1, DecodingInDecoder DEF IInv, TypeOK
<1>8. TypeOK'
  BY <1>3, <1>4, <1>6, <1>7, Halves DEF IInv, TypeOK, Control, InWindow
<1>9. best \in Decoding
  BY <1>4 DEF IInv, InWindow
<1>10. best' \in Decoding
  BY <1>1, <1>9
<1>11. Decoding \subseteq Decoding'
  BY <1>2, DecoderAssumption DEF IInv, TypeOK, Decoding, Decoders
<1>12. pc' \in InWindow => seek' < end' /\ best' \in Decoding'
  BY <1>3, <1>4, <1>10, <1>11 DEF IInv, InWindow
<1> QED
  BY <1>3, <1>4, <1>5, <1>8, <1>12 DEF IInv, PositionsFit

\* The history is what was taken of it and a result, never more than the context.
LEMMA OutputStep ==
  ASSUME IInv, Output
  PROVE  IInv'
<1> DEFINE d == decoders[best]
           taken == IF prompt > initLen THEN prompt - initLen - 1 ELSE 0
<1>1. /\ d \in DecoderState /\ d.result_len <= NMax
      /\ d.result_len \in Nat /\ d.seek_delta \in Nat
  BY DEF IInv, TypeOK, Sound, DecoderState
<1>2. taken \in Nat /\ taken <= MaxPrompt
  BY Halves, ContextAssumption DEF IInv, TypeOK
<1>3. /\ past' \in {taken, taken + d.result_len}
      /\ pc = "output" /\ pc' = "window"
      /\ \E lone \in BOOLEAN :
           seek' = seek + (IF lone THEN Smaller(end - seek, Window) ELSE d.seek_delta)
  BY DEF Output, Goto
<1>4. UNCHANGED <<initLen, emptyModel, end, it, i, prompt, best, decoders, batch>>
  BY DEF Output, call, loops, cache
<1> HIDE DEF d, taken
<1>5. past' \in 0 .. TextCtx
  BY <1>1, <1>2, <1>3, Halves
<1>6. seek < end /\ seek \in Nat /\ end \in Nat
  BY <1>3 DEF IInv, TypeOK, InWindow
<1>7. seek' \in Nat
  BY <1>1, <1>3, <1>6, TimeAssumption DEF Smaller
<1>8. TypeOK'
  BY <1>3, <1>4, <1>5, <1>7 DEF IInv, TypeOK, Control
<1> QED
  BY <1>3, <1>4, <1>8 DEF IInv, PositionsFit, InWindow

\* The failures leave everything but pc as it was.
LEMMA FailStep ==
  ASSUME IInv, CacheFails \/ Fail
  PROVE  IInv'
<1>1. pc' \in {"idle", "freed"}
  BY DEF CacheFails, Fail, Goto
<1>2. UNCHANGED <<call, window, loops, decoders, cache>>
  BY DEF CacheFails, Fail
<1> QED
  BY <1>1, <1>2
     DEF IInv, TypeOK, Control, InWindow, PositionsFit, call, window, loops, cache

LEMMA Stutters == IInv /\ UNCHANGED vars => IInv'
BY DEF IInv, TypeOK, PositionsFit, Active, Decoding, Decoders, vars, call, window, loops, cache

-----------------------------------------------------------------------------
\* IInv is an invariant of whisper_full_with_state, whatever its constants are.
THEOREM FullInvariance == Spec => []IInv
<1>1. IInv /\ [Next]_vars => IInv'
  <2> SUFFICES ASSUME IInv, [Next]_vars PROVE IInv'
    OBVIOUS
  <2> QED
    BY CallStep, EncodeStep, DecodePromptStep, SampleStep, DecodeTokensStep, RankStep,
       OutputStep, FailStep, Stutters DEF Next
<1> QED
  BY InitInv, <1>1, PTL DEF Spec

\* The parameters, counts and places of the call keep their ranges, whatever is
\* sampled (whisper.cpp:6897, 7175, 7582-7592).
THEOREM TypeIsKept == Spec => []TypeOK
<1>1. IInv => TypeOK
  BY DEF IInv
<1> QED
  BY FullInvariance, <1>1, PTL

\* No token is decoded at a position past the context of the model
\* (whisper.cpp:6897, 7175, 7432).
THEOREM FitsContext == Spec => []PositionsFit
<1>1. IInv => PositionsFit
  BY DEF IInv
<1> QED
  BY FullInvariance, <1>1, PTL

\* A result is never longer than the tokens it is cut from (whisper.cpp:7569, 7587-7592).
THEOREM ResultFits == Spec => []ResultInTokens
<1>1. IInv => ResultInTokens
  BY DecodingInDecoder DEF IInv, Sound, ResultInTokens
<1> QED
  BY FullInvariance, <1>1, PTL

\* The decoder whose text becomes the result was decoded in the iteration that
\* ended the fallback (whisper.cpp:7023, 7503-7548).
THEOREM BestIsCurrent == Spec => []BestDecodedNow
<1>1. IInv => BestDecodedNow
  BY DEF IInv, InWindow, BestDecodedNow
<1> QED
  BY FullInvariance, <1>1, PTL

-----------------------------------------------------------------------------
(* The KV cache.                                                           *)

LEMMA Rounded ==
  ASSUME NEW x \in Nat, NEW p \in Nat \ {0}
  PROVE  (x \div p) * p \in Nat /\ (x \div p) * p > x - p
OBVIOUS

LEMMA PaddedEnough == PaddedCtx \in Nat /\ PaddedCtx >= TextCtx
<1> DEFINE x == TextCtx + Padding - 1
<1>1. x \in Nat /\ Padding \in Nat \ {0}
  BY ContextAssumption, PaddingAssumption
<1>2. PaddedCtx = (x \div Padding) * Padding
  BY DEF PaddedCtx
<1> HIDE DEF x
<1>3. PaddedCtx \in Nat /\ PaddedCtx > x - Padding
  BY <1>1, <1>2, Rounded
<1> QED
  BY <1>1, <1>3, ContextAssumption DEF x

LEMMA Times ==
  ASSUME NEW a \in Nat, NEW b \in Nat, NEW c \in Nat, a <= b
  PROVE  c * a <= c * b /\ a * c <= b * c /\ c * a \in Nat /\ a * c \in Nat
OBVIOUS

\* The smallest place is found when there is one.
LEMMA SlotIs ==
  ASSUME NEW runs \in SUBSET Nat, NEW from \in Nat, NEW m \in runs, m >= from,
         \A h \in runs : h >= from => m <= h
  PROVE  Slot(runs, from) = m
<1> DEFINE ahead == {h \in runs : h >= from}
<1>1. m \in ahead /\ \A h \in ahead : m <= h
  OBVIOUS
<1>2. \A x \in ahead : (\A y \in ahead : x <= y) => x = m
  BY <1>1
<1> HIDE DEF ahead
<1>3. Min(ahead) = m
  BY <1>1, <1>2 DEF Min
<1> QED
  BY <1>1, <1>3 DEF Slot, ahead

\* A cache that is occupied from the start on has its next slot behind that, if
\* there is room.
LEMMA NextSlot ==
  ASSUME NEW used \in Nat, NEW kv, DOMAIN kv = 0 .. used - 1, NEW n \in Nat \ {0},
         NEW size \in Nat, used + n <= size, NEW from \in 0 .. used
  PROVE  FreeRuns(kv, size, n) # {} /\ Slot(FreeRuns(kv, size, n), from) = used
<1>1. used \in FreeRuns(kv, size, n)
  BY DEF FreeRuns
<1>2. \A h \in FreeRuns(kv, size, n) : h \in Nat /\ used <= h
  BY DEF FreeRuns
<1> QED
  BY <1>1, <1>2, SlotIs

\* What the rows look like in their cells.
LEMMA FilledCells ==
  ASSUME NEW used \in Nat, NEW kv, DOMAIN kv = 0 .. used - 1, NEW n \in Nat \ {0},
         NEW rows, DOMAIN rows = 1 .. n, Len(rows) = n
  PROVE  /\ DOMAIN Filled(kv, used, rows) = 0 .. used + n - 1
         /\ \A c \in 0 .. used - 1 : Filled(kv, used, rows)[c] = kv[c]
         /\ \A c \in used .. used + n - 1 : \A k \in 1 .. n :
              c = used + k - 1 =>
                Filled(kv, used, rows)[c] =
                  [pos |-> rows[k].pos, seqs |-> {rows[k].seq}, of |-> rows[k].of]
<1>1. DOMAIN Filled(kv, used, rows) = 0 .. used + n - 1
  BY DEF Filled
<1>2. \A c \in used .. used + n - 1 : \A k \in 1 .. n :
        c = used + k - 1 => c - used + 1 = k /\ c \notin DOMAIN kv
  OBVIOUS
<1> QED
  BY <1>1, <1>2 DEF Filled

\* The cells of the first decoder are shared with the others.
LEMMA SharedCells ==
  ASSUME NEW kv, NEW js
  PROVE  /\ DOMAIN Shared(kv, js) = DOMAIN kv
         /\ \A c \in DOMAIN kv : \A p, d :
              kv[c] = [pos |-> p, seqs |-> {0}, of |-> d] =>
                Shared(kv, js)[c] = [pos |-> p, seqs |-> {0} \cup js, of |-> d]
BY DEF Shared

\* The cache has room for what one iteration puts into it.
LEMMA RoomForAll ==
  ASSUME it \in Nat, NEW kv \in 1 .. BestOf, kv >= Decoders,
         NEW n \in Nat, n + NMax <= TextCtx, NEW k \in 0 .. NMax
  PROVE  n + Decoders * k <= Size(kv) /\ Size(kv) \in Nat
<1>1. Decoders \in Nat \ {0} /\ (kv = 1 => Decoders = 1)
  BY DecoderAssumption DEF Decoders
<1>2. NMax \in Nat /\ TextCtx \in Nat /\ NMax <= TextCtx
  BY Halves, ContextAssumption
<1>3. CASE kv = 1
  BY <1>1, <1>2, <1>3, PaddedEnough DEF Size
<1>4. CASE kv > 1
  <2> DEFINE f == kv + 2
  <2>1. f \in Nat /\ Size(kv) = PaddedCtx * f
    BY <1>4, DecoderAssumption DEF Size
  <2>2. Decoders * k <= kv * k /\ Decoders * k \in Nat
    BY <1>1, <1>2, Times
  <2>3. kv * k <= kv * TextCtx
    BY <1>2, Times
  <2>4. TextCtx + kv * TextCtx <= TextCtx * f
    BY <1>2
  <2>5. TextCtx * f <= PaddedCtx * f /\ PaddedCtx * f \in Nat
    BY <1>2, <2>1, PaddedEnough, Times
  <2> HIDE DEF f
  <2>6. kv * TextCtx \in Nat /\ TextCtx * f \in Nat /\ kv * k \in Nat
    BY <1>2, <2>1, Times
  <2> QED
    BY <1>2, <2>1, <2>2, <2>3, <2>4, <2>5, <2>6
<1> QED
  BY <1>3, <1>4

\* A row is taken by exactly one of the decoders at work.
LEMMA RowsOfActive ==
  /\ IsFiniteSet(Active) /\ Cardinality(Active) \in Nat
  /\ Cardinality(Active) <= Decoders
  /\ \A j \in Active : Row(j) \in 1 .. Cardinality(Active)
  /\ \A j, l \in Active : Row(j) = Row(l) => j = l
  /\ \A k \in 1 .. Cardinality(Active) : \E j \in Active : Row(j) = k
<1> DEFINE upTo(j) == {k \in Active : k <= j}
           m == Cardinality(Active)
<1>1. /\ Decoders \in Nat \ {0}
      /\ IsFiniteSet(Decoding) /\ Cardinality(Decoding) = Decoders
      /\ Active \subseteq Decoding /\ Decoding \subseteq Int
  <2>1. Decoders \in Nat \ {0}
    BY DecoderAssumption DEF Decoders
  <2> QED
    BY <2>1, FS_Interval DEF Decoding, Active
<1>2. IsFiniteSet(Active) /\ m \in Nat /\ m <= Decoders
  BY <1>1, FS_Subset, FS_CardinalityType
<1>3. \A j \in Active : /\ upTo(j) \subseteq Active /\ IsFiniteSet(upTo(j)) /\ j \in upTo(j)
                        /\ Row(j) = Cardinality(upTo(j))
  BY <1>1, <1>2, FS_Subset DEF Row
<1>4. \A j \in Active : Row(j) \in 1 .. m
  <2> TAKE j \in Active
  <2>1. Cardinality(upTo(j)) \in Nat /\ Cardinality(upTo(j)) <= m
    BY <1>2, <1>3, FS_Subset, FS_CardinalityType
  <2>2. Cardinality(upTo(j)) # 0
    BY <1>3, FS_EmptySet
  <2> QED
    BY <1>2, <1>3, <2>1, <2>2
<1>5. \A j, l \in Active : j < l => Row(j) # Row(l)
  <2> SUFFICES ASSUME NEW j \in Active, NEW l \in Active, j < l
               PROVE  Row(j) # Row(l)
    OBVIOUS
  <2>1. /\ \A k \in Active : k <= j => k <= l
        /\ ~(l <= j) /\ l <= l
    BY <1>1
  <2>2. upTo(j) \subseteq upTo(l) /\ l \notin upTo(j) /\ l \in upTo(l)
    BY <2>1, Zenon
  <2>3. Cardinality(upTo(l)) # Cardinality(upTo(j))
    <3> HIDE DEF upTo
    <3> QED
      BY <1>3, <2>2, FS_Subset
  <2> QED
    BY <1>3, <2>3
<1>6. \A j, l \in Active : Row(j) = Row(l) => j = l
  BY <1>1, <1>5
<1>7. \A k \in 1 .. m : \E j \in Active : Row(j) = k
  <2> DEFINE f == [j \in Active |-> Row(j)]
  <2> HIDE DEF m
  <2>1. f \in Injection(Active, 1 .. m)
    BY <1>4, <1>6 DEF Injection, IsInjective
  <2>2. IsFiniteSet(1 .. m) /\ Cardinality(1 .. m) = m
    BY <1>2, FS_Interval DEF m
  <2>3. f \in Surjection(Active, 1 .. m)
    BY <1>2, <2>1, <2>2, FS_Injection DEF m
  <2> QED
    BY <2>3 DEF Surjection
<1> QED
  BY <1>2, <1>4, <1>6, <1>7

-----------------------------------------------------------------------------
\* Steps outside the loop over tokens.
LEMMA CacheAside ==
  ASSUME CacheInv, UNCHANGED kvDecoders, pc' \notin {"sample", "next", "noSlot"}
  PROVE  CacheInv'
BY DEF CacheInv, SlotFound

\* The prompt occupies the start of the cache, and every decoder sees it.
LEMMA DecodePromptCache ==
  ASSUME IInv, CacheInv, DecodePrompt
  PROVE  CacheInv'
<1> DEFINE n == History + initLen
           rows == [k \in 1 .. n |-> [seq |-> 0, pos |-> k - 1, of |-> -1]]
           runs == FreeRuns(NoCells, Size(kvDecoders'), n)
           filled == Filled(NoCells, 0, rows)
<1>1. /\ kvDecoders' = IF kvDecoders < Decoders THEN Decoders ELSE kvDecoders
      /\ Goto("prompt", IF runs = {} THEN "noSlot" ELSE "sample")
      /\ prompt' = n /\ i' = 0 /\ it' = it /\ head' = 0 /\ batch' = rows
      /\ i_batch' = [j \in Decoder |-> IF j \in Decoding THEN n ELSE i_batch[j]]
      /\ cells' = IF runs = {} THEN NoCells
                  ELSE Shared(Filled(NoCells, Slot(runs, 0), rows), Decoding)
  BY Zenon DEF DecodePrompt
<1>2. n \in Nat \ {0} /\ n + NMax <= TextCtx
  BY HistoryBounded, Halves, ContextAssumption DEF IInv, TypeOK
<1>3. it \in Nat /\ Decoders \in Nat \ {0} /\ Decoders <= BestOf
  BY DecoderAssumption DEF IInv, TypeOK, Decoders
<1>4. kvDecoders' \in 1 .. BestOf /\ kvDecoders' >= Decoders
  BY <1>1, <1>3 DEF CacheInv
<1>5. Decoding' = Decoding /\ Decoders' = Decoders /\ 0 \in Decoding
  BY <1>1, <1>3 DEF Decoding, Decoders
<1>6. DOMAIN NoCells = 0 .. -1
  BY DEF NoCells
<1>7. DOMAIN rows = 1 .. n /\ Len(rows) = n
  BY <1>2
<1> HIDE DEF n, rows
<1>8. runs # {} /\ Slot(runs, 0) = 0
  <2>1. n + Decoders * 0 <= Size(kvDecoders') /\ Size(kvDecoders') \in Nat
    BY <1>2, <1>3, <1>4, Halves, RoomForAll
  <2>2. 0 + n <= Size(kvDecoders')
    BY <1>2, <1>3, <2>1
  <2> QED
    BY <1>2, <1>6, <2>1, <2>2, NextSlot
<1>9. pc' = "sample" /\ cells' = Shared(filled, Decoding)
  BY <1>1, <1>8 DEF Goto
<1>15. /\ DOMAIN filled = 0 .. 0 + n - 1
       /\ \A c \in 0 .. 0 + n - 1 : \A k \in 1 .. n :
            c = 0 + k - 1 => filled[c] =
              [pos |-> rows[k].pos, seqs |-> {rows[k].seq}, of |-> rows[k].of]
  <2>1. ASSUME NEW from \in Nat, DOMAIN NoCells = 0 .. from - 1
        PROVE  /\ DOMAIN Filled(NoCells, from, rows) = 0 .. from + n - 1
               /\ \A c \in from .. from + n - 1 : \A k \in 1 .. n :
                    c = from + k - 1 => Filled(NoCells, from, rows)[c] =
                      [pos |-> rows[k].pos, seqs |-> {rows[k].seq}, of |-> rows[k].of]
    BY <1>2, <1>7, <2>1, FilledCells
  <2>2. 0 \in Nat /\ DOMAIN NoCells = 0 .. 0 - 1
    BY <1>6
  <2> QED
    BY <2>1, <2>2, Zenon
<1>14. DOMAIN filled = 0 .. n - 1
  BY <1>2, <1>15
<1>10. \A c \in 0 .. n - 1 : filled[c] = [pos |-> c, seqs |-> {0}, of |-> -1]
  <2>1. \A c \in 0 .. n - 1 : \A k \in 1 .. n :
          c = k - 1 => filled[c] =
            [pos |-> rows[k].pos, seqs |-> {rows[k].seq}, of |-> rows[k].of]
    BY <1>2, <1>15
  <2>2. \A c \in 0 .. n - 1 : c + 1 \in 1 .. n /\ c = (c + 1) - 1
                              /\ rows[c + 1] = [seq |-> 0, pos |-> c, of |-> -1]
    BY <1>2 DEF rows
  <2> TAKE c \in 0 .. n - 1
  <2>3. PICK k \in 1 .. n : c = k - 1 /\ rows[k] = [seq |-> 0, pos |-> c, of |-> -1]
    BY <2>2
  <2> QED
    BY <2>1, <2>3
<1> HIDE DEF filled
<1>11. /\ DOMAIN cells' = 0 .. n - 1
       /\ \A c \in 0 .. n - 1 : cells'[c] = [pos |-> c, seqs |-> Decoding, of |-> -1]
  <2>1. {0} \cup Decoding = Decoding
    BY <1>5
  <2>2. /\ DOMAIN Shared(filled, Decoding) = 0 .. n - 1
        /\ \A c \in 0 .. n - 1 :
             Shared(filled, Decoding)[c] = [pos |-> c, seqs |-> {0} \cup Decoding, of |-> -1]
    BY <1>2, <1>10, <1>14, SharedCells
  <2> QED
    BY <1>9, <2>1, <2>2
<1>12. CellsInv'
  <2>1. Generated' = {}
    BY <1>1, <1>11 DEF Generated
  <2>2. 0 .. i' - 1 = {}
    BY <1>1
  <2>3. n \in prompt' .. prompt' + Decoders' * i' /\ head' \in 0 .. n
    BY <1>1, <1>2, <1>3, <1>5
  <2>4. DOMAIN cells' = 0 .. n - 1 /\ prompt' = n
    BY <1>1, <1>11
  <2> QED
    BY <1>4, <1>5, <1>11, <2>1, <2>2, <2>3, <2>4 DEF CellsInv
<1>13. RowsInv'
  <2>1. Active' \subseteq Decoding /\ Decoding \subseteq Decoder
    BY <1>5, DecodingInDecoder DEF Active
  <2>2. rows[n].pos = n - 1 /\ rows[n].seq = 0 /\ n \in DOMAIN rows
    BY <1>2 DEF rows
  <2>3. n - 1 = n + 0 - 1
    BY <1>2
  <2> QED
    BY <1>1, <2>1, <2>2, <2>3 DEF RowsInv
<1> QED
  BY <1>4, <1>9, <1>12, <1>13 DEF CacheInv, SlotFound

\* Sampling ends decoders and touches no cell.
LEMMA SampleCache ==
  ASSUME IInv, CacheInv, Sample
  PROVE  CacheInv'
<1>1. PICK pick \in [Active -> Token] :
        decoders' = [j \in Decoder |->
          IF j \in Active THEN Updated(decoders[j], pick[j]) ELSE decoders[j]]
  BY DEF Sample
<1>2. /\ pc = "sample"
      /\ pc' = IF \E j \in Decoding : AtWork(decoders'[j]) THEN "next" ELSE "rank"
      /\ UNCHANGED <<i, it, prompt, kvDecoders, cells, head>>
  BY DEF Sample, Goto, loops, cache
<1>3. Decoding' = Decoding /\ Decoders' = Decoders
  BY <1>2 DEF Decoding, Decoders
<1>4. Active' \subseteq Active
  BY <1>1, <1>3, DecodingInDecoder DEF Active
<1>5. pc' = "next" => Active' # {}
  BY <1>2, <1>3 DEF Active
<1>6. CellsInv'
  BY <1>2, <1>3, <1>4 DEF CacheInv, CellsInv, Generated, TokenCell
<1> QED
  BY <1>2, <1>5, <1>6 DEF CacheInv, SlotFound

\* The tokens of an iteration follow the cells that are occupied, one for each
\* decoder at work.
LEMMA DecodeTokensCache ==
  ASSUME IInv, CacheInv, DecodeTokens
  PROVE  CacheInv'
<1> DEFINE at(k) == CHOOSE j \in Active : Row(j) = k
           m == Cardinality(Active)
           rows == [k \in 1 .. m |-> [seq |-> at(k), pos |-> prompt + i, of |-> at(k)]]
           runs == FreeRuns(cells, Size(kvDecoders), Len(rows))
<1>1. /\ Goto("next", IF runs = {} THEN "noSlot" ELSE IF i + 1 = NMax THEN "rank" ELSE "sample")
      /\ i' = i + 1 /\ batch' = rows
      /\ i_batch' = [j \in Decoder |-> IF j \in Active THEN Row(j) ELSE i_batch[j]]
      /\ runs # {} => head' = Slot(runs, head) /\ cells' = Filled(cells, head', rows)
      /\ UNCHANGED <<it, prompt, decoders, kvDecoders>>
  BY Zenon DEF DecodeTokens
<1>2. /\ i \in Nat /\ i + 1 \in 0 .. NMax /\ it \in Nat /\ CellsInv /\ Active # {}
      /\ prompt \in Nat /\ prompt + NMax <= TextCtx /\ NMax \in Nat
      /\ kvDecoders \in 1 .. BestOf /\ kvDecoders >= Decoders
  BY <1>1, Halves, ContextAssumption DEF IInv, TypeOK, CacheInv, CellsInv, Goto
<1>3. Decoding' = Decoding /\ Decoders' = Decoders /\ Active' = Active
  BY <1>1 DEF Active, Decoding, Decoders
<1>4. /\ m \in Nat \ {0} /\ m <= Decoders
      /\ \A j \in Active : Row(j) \in 1 .. m /\ at(Row(j)) = j
      /\ \A k \in 1 .. m : at(k) \in Active /\ Row(at(k)) = k
  <2>1. m # 0
    BY <1>2, RowsOfActive, FS_EmptySet
  <2>2. \A k \in 1 .. m : at(k) \in Active /\ Row(at(k)) = k
    BY RowsOfActive
  <2>3. \A j \in Active : Row(j) \in 1 .. m /\ at(Row(j)) = j
    BY <2>2, RowsOfActive
  <2> QED
    BY <2>1, <2>2, <2>3, RowsOfActive
<1>5. DOMAIN rows = 1 .. m /\ Len(rows) = m
  BY <1>4
<1>6. /\ \A k \in 1 .. m : rows[k] = [seq |-> at(k), pos |-> prompt + i, of |-> at(k)]
      /\ Active \subseteq Decoding /\ Decoding \subseteq Decoder
  BY DecodingInDecoder DEF Active
<1> HIDE DEF rows, at, m
<1>7. Decoders \in Nat /\ Decoders * i \in Nat /\ Decoders * (i + 1) = Decoders * i + Decoders
  BY <1>2, DecoderAssumption DEF Decoders
<1>8. PICK used \in prompt .. prompt + Decoders * i :
        DOMAIN cells = 0 .. used - 1 /\ head \in 0 .. used
  BY <1>2 DEF CellsInv
<1>9. used \in Nat /\ prompt <= used /\ used + m <= prompt + Decoders * (i + 1)
  BY <1>2, <1>4, <1>7, <1>8
<1>10. runs # {} /\ Slot(runs, head) = used
  <2>1. prompt + Decoders * (i + 1) <= Size(kvDecoders) /\ Size(kvDecoders) \in Nat
    BY <1>2, RoomForAll
  <2>2. used + m <= Size(kvDecoders)
    BY <1>2, <1>4, <1>7, <1>9, <2>1
  <2> QED
    BY <1>4, <1>5, <1>8, <1>9, <2>1, <2>2, NextSlot
<1>11. pc' \in {"rank", "sample"} /\ head' = used /\ cells' = Filled(cells, used, rows)
  BY <1>1, <1>10 DEF Goto
<1>12. /\ DOMAIN cells' = 0 .. used + m - 1
       /\ \A c \in 0 .. used - 1 : cells'[c] = cells[c]
       /\ \A k \in 1 .. m : cells'[used + k - 1] = TokenCell(i, at(k))
  <2> DEFINE filled == Filled(cells, used, rows)
  <2>1. /\ DOMAIN filled = 0 .. used + m - 1
        /\ \A c \in 0 .. used - 1 : filled[c] = cells[c]
        /\ \A c \in used .. used + m - 1 : \A k \in 1 .. m :
             c = used + k - 1 =>
               filled[c] = [pos |-> rows[k].pos, seqs |-> {rows[k].seq}, of |-> rows[k].of]
    BY <1>4, <1>5, <1>8, <1>9, FilledCells
  <2> HIDE DEF filled
  <2>2. cells' = filled
    BY <1>11 DEF filled
  <2>3. ASSUME NEW k \in 1 .. m
        PROVE  filled[used + k - 1] = TokenCell(i, at(k))
    <3>1. used + k - 1 \in used .. used + m - 1
      BY <1>4, <1>9
    <3>2. filled[used + k - 1] =
            [pos |-> rows[k].pos, seqs |-> {rows[k].seq}, of |-> rows[k].of]
      BY <2>1, <3>1
    <3>3. rows[k].pos = prompt + i /\ rows[k].seq = at(k) /\ rows[k].of = at(k)
      <4>1. rows[k] = [seq |-> at(k), pos |-> prompt + i, of |-> at(k)]
        BY <1>6
      <4> HIDE DEF at
      <4> QED
        BY <4>1
    <3> QED
      BY <3>2, <3>3 DEF TokenCell
  <2> QED
    BY <2>1, <2>2, <2>3
<1>13. /\ \A c \in Generated : c \in 0 .. used - 1 /\ c \in Generated' /\ cells'[c] = cells[c]
       /\ \A k \in 1 .. m : used + k - 1 \in Generated'
       /\ \A c \in Generated' : c \in Generated \/ \E k \in 1 .. m : c = used + k - 1
  <2>1. Generated = prompt .. used - 1 /\ Generated' = prompt .. used + m - 1
    <3>1. \A a, b \in Nat : (0 .. b - 1) \ (0 .. a - 1) = a .. b - 1
      OBVIOUS
    <3>2. used + m \in Nat
      BY <1>4, <1>9
    <3>3. (0 .. used + m - 1) \ (0 .. prompt - 1) = prompt .. used + m - 1
      BY <1>2, <3>1, <3>2
    <3> QED
      BY <1>1, <1>2, <1>8, <1>9, <1>12, <3>1, <3>3 DEF Generated
  <2>2. \A c \in Generated : c \in 0 .. used - 1 /\ c \in Generated'
    BY <1>2, <1>4, <1>9, <2>1
  <2>3. \A k \in 1 .. m : used + k - 1 \in Generated'
    BY <1>2, <1>4, <1>9, <2>1
  <2>4. ASSUME NEW c \in Generated', c \notin Generated
        PROVE  \E k \in 1 .. m : c = used + k - 1
    <3>1. c - used + 1 \in 1 .. m /\ c = used + (c - used + 1) - 1
      BY <1>2, <1>4, <1>9, <2>1, <2>4
    <3> QED
      BY <3>1
  <2> QED
    BY <1>12, <2>2, <2>3, <2>4
<1>14. \A k, j : TokenCell(k, j)' = TokenCell(k, j)
  BY <1>1 DEF TokenCell
<1>15. CellsInv'
  <2>1. /\ used + m \in prompt' .. prompt' + Decoders' * i'
        /\ DOMAIN cells' = 0 .. (used + m) - 1 /\ head' \in 0 .. used + m
    BY <1>1, <1>2, <1>3, <1>4, <1>7, <1>9, <1>11, <1>12
  <2>2. \A c \in 0 .. prompt' - 1 : cells'[c] = [pos |-> c, seqs |-> Decoding', of |-> -1]
    BY <1>1, <1>2, <1>3, <1>9, <1>12 DEF CellsInv
  <2>3. \A c \in Generated : \E j \in Decoding, k \in 0 .. i - 1 : cells'[c] = TokenCell(k, j)
    BY <1>2, <1>13 DEF CellsInv
  <2>4. \A c \in Generated' : \E j \in Decoding, k \in 0 .. i : cells'[c] = TokenCell(k, j)
    <3>1. ASSUME NEW k \in 1 .. m
          PROVE  \E j \in Decoding, l \in 0 .. i : cells'[used + k - 1] = TokenCell(l, j)
      <4>1. at(k) \in Decoding /\ i \in 0 .. i
        BY <1>2, <1>4, <1>6
      <4> QED
        BY <1>12, <4>1
    <3>2. 0 .. i - 1 \subseteq 0 .. i
      BY <1>2
    <3> QED
      BY <1>13, <2>3, <3>1, <3>2
  <2>5. \A c, e \in Generated' : cells'[c] = cells'[e] => c = e
    <3>1. ASSUME NEW c \in Generated, NEW k \in 1 .. m
          PROVE  cells'[c] # cells'[used + k - 1]
      <4>1. PICK l \in 0 .. i - 1, j \in Decoding : cells'[c] = TokenCell(l, j)
        BY <2>3
      <4>2. cells'[used + k - 1] = TokenCell(i, at(k))
        BY <1>12
      <4> QED
        BY <1>2, <4>1, <4>2 DEF TokenCell
    <3>2. ASSUME NEW k \in 1 .. m, NEW l \in 1 .. m, cells'[used + k - 1] = cells'[used + l - 1]
          PROVE  k = l
      <4>1. TokenCell(i, at(k)) = TokenCell(i, at(l))
        BY <1>12, <3>2
      <4>2. at(k) = at(l)
        BY <4>1 DEF TokenCell
      <4> QED
        BY <1>4, <4>2
    <3>3. \A c, e \in Generated : cells'[c] = cells'[e] => c = e
      BY <1>2, <1>13 DEF CellsInv
    <3> QED
      BY <1>13, <3>1, <3>2, <3>3
  <2>6. \A j \in Active, k \in 0 .. i : \E c \in Generated' : cells'[c] = TokenCell(k, j)
    <3> SUFFICES ASSUME NEW j \in Active, NEW k \in 0 .. i
                 PROVE  \E c \in Generated' : cells'[c] = TokenCell(k, j)
      OBVIOUS
    <3>1. CASE k = i
      <4>1. Row(j) \in 1 .. m /\ at(Row(j)) = j
        BY <1>4
      <4> QED
        BY <1>12, <1>13, <3>1, <4>1
    <3>2. CASE k # i
      <4>1. k \in 0 .. i - 1
        BY <1>2, <3>2
      <4>2. PICK c \in Generated : cells[c] = TokenCell(k, j)
        BY <1>2, <4>1 DEF CellsInv
      <4> QED
        BY <1>13, <4>2
    <3> QED
      BY <3>1, <3>2
  <2>7. i' - 1 = i
    BY <1>1, <1>2
  <2>8. kvDecoders' >= Decoders'
    BY <1>1, <1>2, <1>3
  <2>9. \A c \in Generated' : \E j \in Decoding', k \in 0 .. i' - 1 : cells'[c] = TokenCell(k, j)'
    BY <1>3, <1>14, <2>4, <2>7
  <2>10. \A j \in Active', k \in 0 .. i' - 1 : \E c \in Generated' : cells'[c] = TokenCell(k, j)'
    BY <1>3, <1>14, <2>6, <2>7
  <2>11. \E top \in prompt' .. prompt' + Decoders' * i' :
           DOMAIN cells' = 0 .. top - 1 /\ head' \in 0 .. top
    BY <2>1
  <2> QED
    BY <2>2, <2>5, <2>8, <2>9, <2>10, <2>11 DEF CellsInv
<1>16. RowsInv'
  BY <1>1, <1>2, <1>3, <1>4, <1>5, <1>6 DEF RowsInv
<1> QED
  BY <1>1, <1>2, <1>11, <1>15, <1>16 DEF CacheInv, SlotFound

\* A decoder sees the prompt and its own tokens, each once.
LEMMA OwnHistory ==
  ASSUME IInv, CacheInv
  PROVE  SeesOwnHistory
<1> SUFFICES ASSUME pc = "sample", NEW j \in Active
             PROVE  LET n == Len(decoders[j].tokens)
                        row == batch[i_batch[j]]
                        view == {c \in DOMAIN cells : row.seq \in cells[c].seqs /\ cells[c].pos <= row.pos}
                    IN  /\ Cardinality(view) = prompt + n
                        /\ {<<cells[c].pos, cells[c].of>> : c \in view} =
                             {<<k, -1>> : k \in 0 .. prompt - 1}
                               \cup {<<prompt + k, j>> : k \in 0 .. n - 1}
  BY DEF SeesOwnHistory
<1> DEFINE row == batch[i_batch[j]]
           view == {c \in DOMAIN cells : row.seq \in cells[c].seqs /\ cells[c].pos <= row.pos}
           last == prompt + i - 1
<1>1. /\ i \in Nat /\ prompt \in Nat /\ Len(decoders[j].tokens) = i
      /\ CellsInv /\ RowsInv
  BY DEF IInv, TypeOK, CacheInv
<1>2. row.pos = last /\ row.seq = (IF i = 0 THEN 0 ELSE j) /\ row.seq \in Decoding
  BY <1>1, DecoderAssumption DEF RowsInv, Active, Decoding, Decoders
<1> HIDE DEF row
<1>3. PICK used \in prompt .. prompt + Decoders * i : DOMAIN cells = 0 .. used - 1
  BY <1>1 DEF CellsInv
<1>4. /\ used \in Nat /\ prompt <= used
      /\ IsFiniteSet(DOMAIN cells)
      /\ \A c \in DOMAIN cells : c \in 0 .. prompt - 1 \/ c \in Generated
      /\ \A c \in 0 .. prompt - 1 : c \in DOMAIN cells
      /\ \A c \in Generated : c \in DOMAIN cells /\ c \notin 0 .. prompt - 1
  <2>1. used \in Nat /\ prompt <= used
    BY <1>1, <1>3, DecoderAssumption DEF Decoders
  <2>2. IsFiniteSet(DOMAIN cells)
    <3>1. 0 \in Int /\ used - 1 \in Int
      BY <2>1
    <3>2. IsFiniteSet(0 .. used - 1)
      BY <3>1, FS_Interval
    <3> QED
      BY <1>3, <3>2
  <2>3. \A c \in DOMAIN cells : c \in 0 .. prompt - 1 \/ c \in Generated
    BY DEF Generated
  <2>4. \A c \in 0 .. prompt - 1 : c \in DOMAIN cells
    BY <1>1, <1>3, <2>1
  <2>5. \A c \in Generated : c \in DOMAIN cells /\ c \notin 0 .. prompt - 1
    BY DEF Generated
  <2> QED
    BY <2>1, <2>2, <2>3, <2>4, <2>5
<1>5. \A c \in 0 .. prompt - 1 : c \in view /\ cells[c].pos = c /\ cells[c].of = -1
  <2> TAKE c \in 0 .. prompt - 1
  <2>1. cells[c] = [pos |-> c, seqs |-> Decoding, of |-> -1]
    BY <1>1 DEF CellsInv
  <2>2. c <= last
    BY <1>1
  <2> QED
    BY <1>2, <1>4, <2>1, <2>2
<1>6. \A c \in Generated : c \in view =>
        \E k \in 0 .. i - 1 : cells[c] = TokenCell(k, j)
  <2> SUFFICES ASSUME NEW c \in Generated, c \in view
               PROVE  \E k \in 0 .. i - 1 : cells[c] = TokenCell(k, j)
    OBVIOUS
  <2>1. PICK l \in Decoding, k \in 0 .. i - 1 : cells[c] = TokenCell(k, l)
    BY <1>1 DEF CellsInv
  <2>2. i # 0 /\ row.seq = j /\ row.seq \in {l}
    BY <1>1, <1>2, <2>1 DEF TokenCell
  <2> QED
    BY <2>1, <2>2
<1>7. \A k \in 0 .. i - 1 : \E c \in view : c \in Generated /\ cells[c] = TokenCell(k, j)
  <2> SUFFICES ASSUME NEW k \in 0 .. i - 1
               PROVE  \E c \in view : c \in Generated /\ cells[c] = TokenCell(k, j)
    OBVIOUS
  <2>1. PICK c \in Generated : cells[c] = TokenCell(k, j)
    BY <1>1 DEF CellsInv
  <2>2. cells[c].seqs = {j} /\ cells[c].pos = prompt + k /\ prompt + k <= last
    BY <1>1, <2>1 DEF TokenCell
  <2>3. row.seq = j
    BY <1>1, <1>2
  <2> QED
    BY <1>2, <1>4, <2>1, <2>2, <2>3
<1>8. IsFiniteSet(view) /\ \A c \in view : c \in DOMAIN cells
  BY <1>4, FS_Subset
<1> HIDE DEF view
<1>9. \A k \in 0 .. i - 1 : TokenCell(k, j).pos = prompt + k /\ TokenCell(k, j).of = j
  BY DEF TokenCell
<1>10. Cardinality(view) = prompt + i
  <2> DEFINE f == [c \in view |-> cells[c].pos]
  <2>1. \A c \in view : c \notin 0 .. prompt - 1 => cells[c].pos \in prompt .. last
    BY <1>1, <1>4, <1>6, <1>8, <1>9
  <2>2. f \in [view -> 0 .. last]
    BY <1>1, <1>4, <1>5, <2>1
  <2>3. \A c, e \in view : cells[c].pos = cells[e].pos => c = e
    <3> SUFFICES ASSUME NEW c \in view, NEW e \in view, cells[c].pos = cells[e].pos
                 PROVE  c = e
      OBVIOUS
    <3>1. CASE c \in 0 .. prompt - 1 /\ e \in 0 .. prompt - 1
      BY <1>5, <3>1
    <3>2. CASE ~(c \in 0 .. prompt - 1 <=> e \in 0 .. prompt - 1)
      BY <1>1, <1>5, <2>1, <3>2
    <3>3. CASE c \notin 0 .. prompt - 1 /\ e \notin 0 .. prompt - 1
      <4>1. c \in Generated /\ e \in Generated
        BY <1>4, <1>8, <3>3
      <4>2. PICK k \in 0 .. i - 1, l \in 0 .. i - 1 :
              cells[c] = TokenCell(k, j) /\ cells[e] = TokenCell(l, j)
        BY <1>6, <4>1
      <4>3. k = l
        BY <1>1, <1>9, <4>2
      <4> QED
        BY <1>1, <4>1, <4>2, <4>3, SMTT(30) DEF CellsInv
    <3> QED
      BY <3>1, <3>2, <3>3
  <2>4. \A p \in 0 .. last : \E c \in view : cells[c].pos = p
    <3> SUFFICES ASSUME NEW p \in 0 .. last PROVE \E c \in view : cells[c].pos = p
      OBVIOUS
    <3>1. CASE p < prompt
      BY <1>1, <1>5, <3>1
    <3>2. CASE p >= prompt
      <4>1. p - prompt \in 0 .. i - 1 /\ prompt + (p - prompt) = p
        BY <1>1, <3>2
      <4> QED
        BY <1>7, <1>9, <4>1
    <3> QED
      BY <1>1, <3>1, <3>2
  <2>5. f \in Bijection(view, 0 .. last)
    <3>1. f \in Injection(view, 0 .. last)
      BY <2>2, <2>3 DEF Injection, IsInjective
    <3>2. f \in Surjection(view, 0 .. last)
      BY <2>2, <2>4 DEF Surjection
    <3> QED
      BY <3>1, <3>2 DEF Bijection
  <2> HIDE DEF f
  <2>6. Cardinality(0 .. last) = Cardinality(view)
    <3>1. ExistsBijection(view, 0 .. last)
      BY <2>5 DEF ExistsBijection
    <3> HIDE DEF last
    <3> QED
      BY <1>8, <3>1, FS_Bijection
  <2>7. last \in Int /\ Cardinality(0 .. last) = prompt + i
    <3>1. 0 \in Int /\ last \in Int /\ last - 0 + 1 = prompt + i /\ (0 > last => prompt + i = 0)
      BY <1>1
    <3>2. Cardinality(0 .. last) = IF 0 > last THEN 0 ELSE last - 0 + 1
      BY <3>1, FS_Interval
    <3> QED
      BY <3>1, <3>2
  <2> QED
    BY <2>6, <2>7
<1>11. {<<cells[c].pos, cells[c].of>> : c \in view} =
         {<<k, -1>> : k \in 0 .. prompt - 1} \cup {<<prompt + k, j>> : k \in 0 .. i - 1}
  <2>1. ASSUME NEW c \in view
        PROVE  \/ \E k \in 0 .. prompt - 1 : <<cells[c].pos, cells[c].of>> = <<k, -1>>
               \/ \E k \in 0 .. i - 1 : <<cells[c].pos, cells[c].of>> = <<prompt + k, j>>
    BY <1>4, <1>5, <1>6, <1>8, <1>9
  <2>2. ASSUME NEW k \in 0 .. prompt - 1
        PROVE  \E c \in view : <<cells[c].pos, cells[c].of>> = <<k, -1>>
    BY <1>5
  <2>3. ASSUME NEW k \in 0 .. i - 1
        PROVE  \E c \in view : <<cells[c].pos, cells[c].of>> = <<prompt + k, j>>
    BY <1>7, <1>9
  <2> QED
    BY <2>1, <2>2, <2>3
<1> QED
  BY <1>1, <1>10, <1>11 DEF view, row

\* CacheInv holds in every call, whatever is sampled and however often the window is
\* decoded anew (whisper.cpp:1019-1064, 7113-7169, 7430-7446).
THEOREM CacheInvariance == Spec => []CacheInv
<1>1. Init => CacheInv
  BY DecoderAssumption DEF Init, CacheInv, SlotFound
<1>2. IInv /\ CacheInv /\ [Next]_vars => CacheInv'
  <2> SUFFICES ASSUME IInv, CacheInv, [Next]_vars PROVE CacheInv'
    OBVIOUS
  <2>1. ASSUME NEW length \in Lengths, Call(length) PROVE CacheInv'
    BY <2>1, CacheAside DEF Call, Goto, cache
  <2>2. CASE Encode
    BY <2>2, CacheAside DEF Encode, Goto, cache
  <2>3. CASE DecodePrompt
    BY <2>3, DecodePromptCache
  <2>4. CASE Sample
    BY <2>4, SampleCache
  <2>5. CASE DecodeTokens
    BY <2>5, DecodeTokensCache
  <2>6. CASE Rank
    BY <2>6, CacheAside DEF Rank, Goto, cache
  <2>7. CASE Output
    BY <2>7, CacheAside DEF Output, Goto, cache
  <2>8. CASE CacheFails
    BY <2>8, CacheAside DEF CacheFails, Goto, cache
  <2>9. CASE Fail
    <3>1. pc' = "idle" /\ UNCHANGED cache
      BY <2>9 DEF Fail, Goto
    <3> QED
      BY <3>1, CacheAside DEF cache
  <2>10. CASE UNCHANGED vars
    <3>1. UNCHANGED <<pc, it, i, prompt, decoders, kvDecoders, cells, head, batch, i_batch>>
      BY <2>10 DEF vars, loops, cache
    <3>2. UNCHANGED <<Decoders, Decoding, Active, Generated>>
      BY <3>1 DEF Decoders, Decoding, Active, Generated
    <3>3. CellsInv => CellsInv'
      <4>1. \A k, j : TokenCell(k, j)' = TokenCell(k, j)
        BY <3>1 DEF TokenCell
      <4> QED
        BY <3>1, <3>2, <4>1 DEF CellsInv
    <3>4. RowsInv => RowsInv'
      BY <3>1, <3>2 DEF RowsInv
    <3> QED
      BY <3>1, <3>2, <3>3, <3>4 DEF CacheInv, SlotFound
  <2> QED
    BY <2>1, <2>2, <2>3, <2>4, <2>5, <2>6, <2>7, <2>8, <2>9, <2>10 DEF Next
<1> QED
  BY FullInvariance, <1>1, <1>2, PTL DEF Spec

\* The cache has room for the prompt and for every batch of tokens, with any number of
\* decoders (whisper.cpp:1019-1064, 7113-7133).
THEOREM CacheHasRoom == Spec => []SlotFound
<1>1. CacheInv => SlotFound
  BY DEF CacheInv
<1> QED
  BY CacheInvariance, <1>1, PTL

\* The logits a decoder samples from saw the prompt and the decoder's own tokens, each
\* once, and nothing else (whisper.cpp:2909-2924, 7154-7169, 7430-7446).
THEOREM DecodersAreApart == Spec => []SeesOwnHistory
BY FullInvariance, CacheInvariance, OwnHistory, PTL

=============================================================================
