------------------------- MODULE ModelAssetsProofs -------------------------
(***************************************************************************)
(* Proofs about ModelAssets, for any number of loaders that share the file,*)
(* any size of it and any number of kills.                                 *)
(***************************************************************************)
EXTENDS ModelAssets, TLAPS

Control == {"idle", "failed", "test", "open", "copy", "load", "ready", "readyInPart"}

TypeOK ==
  /\ exists \in BOOLEAN /\ content \subseteq Chunk
  /\ pc \in [Loader -> Control]
  /\ written \in [Loader -> 0 .. Chunks]
  /\ interrupted \in BOOLEAN /\ kills \in Nat

\* As long as the file is not whole, the loader that emptied it last is still copying
\* and has all it has written in the file.
SomeoneCompletes ==
  exists /\ ~interrupted =>
    \/ content = Chunk
    \/ \E l \in Loader : pc[l] = "copy" /\ 1 .. written[l] \subseteq content

IInv == TypeOK /\ SomeoneCompletes

\* The file and its copies are typed; the file that is not whole is being completed
\* (WhisperEngine.kt:91-101, PiperEngine.kt:150-160).
THEOREM FileInvariant == Spec => []IInv
<1> USE ChunksAssumption, KillsAssumption
<1>1. Init => IInv
  <2> SUFFICES ASSUME Init PROVE IInv
    OBVIOUS
  <2>1. /\ exists \in BOOLEAN /\ interrupted \in BOOLEAN
        /\ content \subseteq Chunk /\ kills \in Nat
    BY DEF Init
  <2>2. pc \in [Loader -> Control] /\ written \in [Loader -> 0 .. Chunks]
    BY DEF Init, Control
  <2> QED
    BY <2>1, <2>2 DEF Init, IInv, TypeOK, SomeoneCompletes
<1>2. IInv /\ [Next]_vars => IInv'
  <2> SUFFICES ASSUME IInv, [Next]_vars PROVE IInv'
    OBVIOUS
  <2> USE DEF IInv, TypeOK, Control, SomeoneCompletes, Goto, Chunk
  <2>1. ASSUME NEW l \in Loader, Initialize(l) PROVE IInv'
    BY <2>1 DEF Initialize
  <2>2. ASSUME NEW l \in Loader, TestExists(l) PROVE IInv'
    BY <2>2 DEF TestExists
  <2>3. ASSUME NEW l \in Loader, Open(l) PROVE IInv'
    BY <2>3 DEF Open
  <2>4. ASSUME NEW l \in Loader, Copy(l) PROVE IInv'
    <3>1. TypeOK'
      <4>1. written[l] + 1 \in 1 .. Chunks
        BY <2>4 DEF Copy
      <4>2. written' \in [Loader -> 0 .. Chunks]
        BY <2>4, <4>1 DEF Copy
      <4>3. content' \subseteq Chunk
        BY <2>4, <4>1 DEF Copy
      <4>4. pc' \in [Loader -> Control]
        BY <2>4 DEF Copy
      <4> QED
        BY <2>4, <4>2, <4>3, <4>4 DEF Copy
    <3>2. ASSUME NEW k \in Loader, pc[k] = "copy", 1 .. written[k] \subseteq content
          PROVE  pc'[k] = "copy" /\ 1 .. written'[k] \subseteq content'
      BY <2>4, <3>2 DEF Copy
    <3>3. content = Chunk => content' = Chunk
      BY <2>4 DEF Copy
    <3> QED
      BY <2>4, <3>1, <3>2, <3>3 DEF Copy
  <2>5. ASSUME NEW l \in Loader, CopyDone(l) PROVE IInv'
    BY <2>5 DEF CopyDone
  <2>6. ASSUME NEW l \in Loader, Load(l) PROVE IInv'
    BY <2>6 DEF Load
  <2>7. ASSUME NEW l \in Loader, CopyFails(l) PROVE IInv'
    BY <2>7 DEF CopyFails
  <2>8. ASSUME NEW l \in Loader, OpenFails(l) PROVE IInv'
    BY <2>8 DEF OpenFails
  <2>9. CASE Kill
    BY <2>9 DEF Kill
  <2>10. CASE UNCHANGED vars
    BY <2>10 DEF vars
  <2> QED
    BY <2>1, <2>2, <2>3, <2>4, <2>5, <2>6, <2>7, <2>8, <2>9, <2>10 DEF Next, LoaderStep
<1> QED
  BY <1>1, <1>2, PTL DEF Spec

\* However many copies interleave, truncate and overwrite each other, when the last is
\* over the file is whole, unless one was cut short (WhisperEngine.kt:91-101,
\* PiperEngine.kt:150-160).
THEOREM FileIsWhole == Spec => []SettlesWhole
<1>1. IInv => SettlesWhole
  BY DEF IInv, SomeoneCompletes, SettlesWhole, Copying, Whole
<1> QED
  BY <1>1, FileInvariant, PTL

=============================================================================
