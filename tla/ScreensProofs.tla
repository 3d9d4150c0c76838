--------------------------- MODULE ScreensProofs ---------------------------
(***************************************************************************)
(* Proofs about Screens, for any decks, tabs, sizes and syncs and a back   *)
(* stack of any depth.                                                     *)
(***************************************************************************)
EXTENDS Screens, SequenceTheorems, TLAPS

Route == {"decks", "deck_config", "player"} \cup Tab

\* What may stand on the back stack or be saved by a tab: the set-up screen and the
\* player have a deck, and a deck is only played once a size was chosen for it.
ProperEntry ==
  {e \in [route : Route, deck : Deck \cup {NoDeck}] :
     /\ e.route \in {"deck_config", "player"} => e.deck \in Deck
     /\ e.route = "player" /\ ~restored => chosen[e.deck] # 0}

TypeOK ==
  /\ granted \in BOOLEAN /\ request \in BOOLEAN /\ permissionsGranted \in BOOLEAN
  /\ sessionSize \in Nat
  /\ decks \in DeckList /\ isRefreshing \in BOOLEAN
  /\ collected \in BOOLEAN /\ syncEvent \in BOOLEAN
  /\ sync \in [SyncJob -> {"done", "clear", "query", "hold"}]
  /\ session \in [deck : Deck \cup {NoDeck}, size : Nat]
  /\ chosen \in [Deck -> Nat]
  /\ emptyResult \in BOOLEAN /\ missed \in BOOLEAN /\ restored \in BOOLEAN

Entries ==
  /\ stack \in Seq(ProperEntry) /\ stack # <<>>
  /\ savedHome \in Seq(ProperEntry)

\* Once a size is chosen for some deck, the ViewModel has one that is chosen, and the
\* session that runs has the ViewModel's.
SizesMatch ==
  ~restored =>
    /\ (\E d \in Deck : chosen[d] # 0) => \E d \in Deck : chosen[d] = sessionSize
    /\ session # NoSession =>
         session.deck \in Deck /\ chosen[session.deck] # 0 /\ session.size = sessionSize

IInv == TypeOK /\ Entries /\ SizesMatch /\ ShownWithAccess

-----------------------------------------------------------------------------
LEMMA SeqMono ==
  ASSUME NEW S, NEW T, S \subseteq T, NEW s \in Seq(S)
  PROVE  s \in Seq(T)
OBVIOUS

LEMMA HomeIsProper == Home \in ProperEntry
BY DEF Home, Entry, ProperEntry, Route

\* The entry on top is one of the stack.
LEMMA TopIsProper ==
  ASSUME Entries
  PROVE  /\ Top \in ProperEntry /\ Top = stack[Len(stack)]
         /\ Len(stack) \in Nat \ {0}
BY DEF Entries, Top, Last

\* A deck that is set up stays set up.
LEMMA ProperStays ==
  ASSUME restored => restored', \A d \in Deck : chosen[d] # 0 => chosen'[d] # 0
  PROVE  ProperEntry \subseteq ProperEntry'
BY DEF ProperEntry

\* What entering the composition does to the list and to the session.
LEMMA EnterKeeps ==
  ASSUME TypeOK, NEW top \in ProperEntry', Enter(top), sessionSize' \in Nat, syncEvent' \in BOOLEAN
  PROVE  /\ decks' \in DeckList /\ isRefreshing' \in BOOLEAN /\ collected' \in BOOLEAN
         /\ session' \in [deck : Deck \cup {NoDeck}, size : Nat]
         /\ \/ session' = session /\ top.route # "player"
            \/ /\ session'.deck \in Deck /\ session'.size = sessionSize'
               /\ ~restored' => chosen'[session'.deck] # 0
<1>1. /\ decks' \in DeckList /\ isRefreshing' \in BOOLEAN /\ collected' \in BOOLEAN
  BY DEF Enter, TypeOK, list
<1>2. CASE top.route = "player"
  <2>1. session' = [deck |-> top.deck, size |-> sessionSize']
    BY <1>2 DEF Enter
  <2>2. top.deck \in Deck /\ (~restored' => chosen'[top.deck] # 0)
    BY <1>2 DEF ProperEntry
  <2> QED
    BY <1>1, <2>1, <2>2
<1>3. CASE top.route # "player"
  <2>1. session' = session
    BY <1>3 DEF Enter
  <2> QED
    BY <1>1, <1>3, <2>1 DEF TypeOK
<1> QED
  BY <1>2, <1>3

\* A handler that navigates without touching the sizes.
LEMMA GotoKeeps ==
  ASSUME IInv, NEW entries \in Seq(ProperEntry), entries # <<>>, Goto(entries),
         savedHome' \in Seq(ProperEntry), UNCHANGED <<sessionSize, chosen>>
  PROVE  IInv'
<1>1. /\ UNCHANGED <<granted, request, permissionsGranted, emptyResult, syncEvent, sync,
                     missed, restored>>
      /\ stack' = entries /\ Enter(Last(entries))
  BY DEF Goto, gate, syncing
<1>2. ProperEntry' = ProperEntry
  BY <1>1 DEF ProperEntry
<1>3. Last(entries) \in ProperEntry
  BY DEF Last
<1>4. /\ decks' \in DeckList /\ isRefreshing' \in BOOLEAN /\ collected' \in BOOLEAN
      /\ session' \in [deck : Deck \cup {NoDeck}, size : Nat]
      /\ \/ session' = session
         \/ /\ session'.deck \in Deck /\ session'.size = sessionSize'
            /\ ~restored' => chosen'[session'.deck] # 0
  BY <1>1, <1>2, <1>3, EnterKeeps DEF IInv, TypeOK
<1>5. TypeOK'
  BY <1>1, <1>4 DEF IInv, TypeOK
<1>6. Entries'
  BY <1>1, <1>2 DEF Entries
<1>7. SizesMatch'
  BY <1>1, <1>4 DEF IInv, SizesMatch, NoSession
<1>8. ShownWithAccess'
  BY <1>1 DEF IInv, ShownWithAccess
<1> QED
  BY <1>5, <1>6, <1>7, <1>8 DEF IInv

\* A handler of the gate: it may show the screens behind it again.
LEMMA GateKeeps ==
  ASSUME IInv, UNCHANGED <<nav, chosen>>,
         \/ restored' /\ sessionSize' = DefaultSize
         \/ UNCHANGED <<restored, sessionSize>>,
         Enter(Top) \/ UNCHANGED <<list, session>>,
         granted' \in BOOLEAN, request' \in BOOLEAN, permissionsGranted' \in BOOLEAN,
         emptyResult' \in BOOLEAN, restored' \in BOOLEAN, missed' = missed,
         syncEvent' \in BOOLEAN, sync' \in [SyncJob -> {"done", "clear", "query", "hold"}],
         ShownWithAccess'
  PROVE  IInv'
<1>1. sessionSize' \in Nat /\ (restored => restored') /\ chosen' = chosen
      /\ stack' = stack /\ savedHome' = savedHome
  BY SizeAssumption DEF IInv, TypeOK, nav
<1>2. ProperEntry \subseteq ProperEntry'
  BY <1>1, ProperStays
<1>3. /\ decks' \in DeckList /\ isRefreshing' \in BOOLEAN /\ collected' \in BOOLEAN
      /\ session' \in [deck : Deck \cup {NoDeck}, size : Nat]
      /\ \/ session' = session
         \/ /\ session'.deck \in Deck /\ session'.size = sessionSize'
            /\ ~restored' => chosen'[session'.deck] # 0
  <2>1. CASE Enter(Top)
    BY <1>1, <1>2, <2>1, TopIsProper, EnterKeeps DEF IInv
  <2>2. CASE UNCHANGED <<list, session>>
    BY <2>2 DEF IInv, TypeOK, list
  <2> QED
    BY <2>1, <2>2
<1>4. TypeOK'
  BY <1>1, <1>3 DEF IInv, TypeOK
<1>5. Entries'
  BY <1>1, <1>2, SeqMono DEF IInv, Entries
<1>6. SizesMatch'
  BY <1>1, <1>3 DEF IInv, SizesMatch, NoSession
<1> QED
  BY <1>4, <1>5, <1>6 DEF IInv

\* A step of the deck list and its sync.
LEMMA ListKeeps ==
  ASSUME IInv, UNCHANGED others, decks' \in DeckList, isRefreshing' \in BOOLEAN,
         collected' \in BOOLEAN, syncEvent' \in BOOLEAN, missed' \in BOOLEAN,
         sync' \in [SyncJob -> {"done", "clear", "query", "hold"}]
  PROVE  IInv'
<1>1. UNCHANGED <<granted, request, permissionsGranted, emptyResult, stack, savedHome,
                  sessionSize, session, chosen, restored>>
  BY DEF others, gate, nav
<1>2. ProperEntry' = ProperEntry
  BY <1>1 DEF ProperEntry
<1>3. TypeOK' /\ Entries'
  BY <1>1, <1>2 DEF IInv, TypeOK, Entries
<1>4. SizesMatch' /\ ShownWithAccess'
  BY <1>1 DEF IInv, SizesMatch, ShownWithAccess
<1> QED
  BY <1>3, <1>4 DEF IInv

-----------------------------------------------------------------------------
LEMMA Invariance ==
  ASSUME IInv, [Next]_vars
  PROVE  IInv'
<1> USE DEF IInv
<1>1. ASSUME NEW allow \in BOOLEAN, Answer(allow) PROVE IInv'
  BY <1>1, GateKeeps DEF Answer, TypeOK, ShownWithAccess, syncing
<1>2. CASE GrantAccess
  BY <1>2, GateKeeps DEF GrantAccess, TypeOK, ShownWithAccess, syncing
<1>3. CASE Recreate
  BY <1>3, GateKeeps DEF Recreate, TypeOK, ShownWithAccess, syncing
<1>4. CASE ProcessDeath
  BY <1>4, GateKeeps DEF ProcessDeath, TypeOK, ShownWithAccess
<1>5. ASSUME NEW d \in Deck, SelectDeck(d) PROVE IInv'
  <2>1. Entry("deck_config", d) \in ProperEntry
    BY DEF Entry, ProperEntry, Route
  <2>2. Append(stack, Entry("deck_config", d)) \in Seq(ProperEntry)
        /\ Append(stack, Entry("deck_config", d)) # <<>>
    BY <2>1, AppendProperties DEF Entries
  <2> QED
    BY <1>5, <2>2, GotoKeeps DEF SelectDeck, Entries
<1>6. ASSUME NEW size \in Size, Start(size) PROVE IInv'
  <2>1. /\ Top \in ProperEntry /\ Top.route = "deck_config" /\ Top.deck \in Deck
        /\ size \in Nat \ {0}
    BY <1>6, TopIsProper, SizeAssumption DEF Start, On, ProperEntry
  <2> DEFINE entries == Append(stack, Entry("player", Top.deck))
  <2>2. /\ UNCHANGED <<granted, request, permissionsGranted, emptyResult, syncEvent, sync,
                       missed, restored, savedHome>>
        /\ chosen' = [chosen EXCEPT ![Top.deck] = size] /\ sessionSize' = size
        /\ stack' = entries /\ Enter(Last(entries))
    BY <1>6 DEF Start, Goto, gate, syncing
  <2>3. chosen' \in [Deck -> Nat] /\ chosen'[Top.deck] = size
        /\ \A d \in Deck : chosen[d] # 0 => chosen'[d] # 0
    BY <2>1, <2>2 DEF TypeOK
  <2>4. ProperEntry \subseteq ProperEntry'
    BY <2>2, <2>3, ProperStays
  <2>5. Entry("player", Top.deck) \in ProperEntry'
    BY <2>1, <2>3 DEF Entry, ProperEntry, Route
  <2>6. /\ stack \in Seq(ProperEntry') /\ savedHome' \in Seq(ProperEntry')
    BY <2>2, <2>4, SeqMono DEF Entries
  <2>7. /\ entries \in Seq(ProperEntry') /\ entries # <<>>
        /\ Last(entries) = Entry("player", Top.deck)
    BY <2>5, <2>6, AppendProperties DEF Last
  <2>8. /\ decks' \in DeckList /\ isRefreshing' \in BOOLEAN /\ collected' \in BOOLEAN
        /\ session' = [deck |-> Top.deck, size |-> size]
    BY <2>1, <2>2, <2>7 DEF Enter, Entry, TypeOK, list
  <2>9. TypeOK'
    BY <2>1, <2>2, <2>3, <2>8 DEF TypeOK
  <2>10. Entries'
    BY <2>2, <2>6, <2>7 DEF Entries
  <2>11. SizesMatch' /\ ShownWithAccess'
    BY <2>1, <2>2, <2>3, <2>8 DEF SizesMatch, ShownWithAccess
  <2> QED
    BY <2>9, <2>10, <2>11
<1>7. CASE Back
  <2>1. Front(stack) \in Seq(ProperEntry) /\ Front(stack) # <<>>
    <3>1. stack \in Seq(ProperEntry) /\ Len(stack) > 1
      BY <1>7 DEF Back, Entries
    <3>2. /\ Front(stack) \in Seq(ProperEntry) /\ Len(Front(stack)) = Len(stack) - 1
      BY <3>1, SubSeqProperties DEF Front
    <3> QED
      BY <3>1, <3>2
  <2> QED
    BY <1>7, <2>1, GotoKeeps DEF Back, Entries
<1>8. ASSUME NEW tab \in Tab, OpenTab(tab) PROVE IInv'
  <2>1. Entry(tab, NoDeck) \in ProperEntry
    BY TabAssumption DEF Entry, ProperEntry, Route
  <2>2. <<Home, Entry(tab, NoDeck)>> \in Seq(ProperEntry) /\ <<Home, Entry(tab, NoDeck)>> # <<>>
    BY <2>1, HomeIsProper
  <2>3. savedHome' \in Seq(ProperEntry)
    BY <1>8 DEF OpenTab, Entries
  <2> QED
    BY <1>8, <2>2, <2>3, GotoKeeps DEF OpenTab
<1>9. CASE OpenHome
  <2>1. Tail(stack) \in Seq(ProperEntry) /\ savedHome \in Seq(ProperEntry)
    BY <1>9 DEF Entries
  <2>2. <<Home>> \in Seq(ProperEntry)
    BY HomeIsProper
  <2>3. \A rest \in Seq(ProperEntry) : <<Home>> \o rest \in Seq(ProperEntry) /\ <<Home>> \o rest # <<>>
    BY <2>2
  <2>4. savedHome' \in Seq(ProperEntry) /\ UNCHANGED <<sessionSize, chosen>>
    BY <1>9 DEF OpenHome
  <2>5. \E entries \in Seq(ProperEntry) : entries # <<>> /\ Goto(entries)
    BY <1>9, <2>1, <2>2, <2>3 DEF OpenHome
  <2> QED
    BY <2>4, <2>5, GotoKeeps
<1>10. CASE StartFeatured
  <2>1. /\ UNCHANGED <<granted, request, permissionsGranted, emptyResult, missed>>
        /\ stack' = <<Home>> /\ savedHome' = <<>> /\ session' = NoSession
        /\ sessionSize' = DefaultSize /\ chosen' = [d \in Deck |-> 0] /\ restored' = FALSE
        /\ decks' \in DeckList /\ isRefreshing' = FALSE /\ collected' = FALSE
        /\ syncEvent' = FALSE /\ sync' = [j \in SyncJob |-> "done"]
    BY <1>10 DEF StartFeatured
  <2>2. TypeOK'
    BY <2>1, SizeAssumption DEF TypeOK, NoSession
  <2>3. Entries'
    <3>1. Home \in ProperEntry'
      BY DEF Home, Entry, ProperEntry, Route
    <3> QED
      BY <2>1, <3>1 DEF Entries
  <2>4. SizesMatch' /\ ShownWithAccess'
    BY <2>1 DEF SizesMatch, ShownWithAccess
  <2> QED
    BY <2>2, <2>3, <2>4
<1>11. ASSUME NEW j \in SyncJob, RequestSync(j) \/ SyncStep(j) PROVE IInv'
  BY <1>11, ListKeeps
  DEF RequestSync, SyncStep, ClearEvent, PublishEvent, RetractEvent, EventGone, SyncGoto, TypeOK,
      list
<1>12. CASE Collect
  BY <1>12, ListKeeps DEF Collect, TypeOK, syncing
<1>13. CASE UNCHANGED vars
  BY <1>13, ListKeeps DEF vars, others, list, syncing, TypeOK
<1> QED
  BY <1>1, <1>2, <1>3, <1>4, <1>5, <1>6, <1>7, <1>8, <1>9, <1>10, <1>11, <1>12, <1>13 DEF Next

\* Gate, navigation and sizes stay in step for a back stack of any depth
\* (MainActivity.kt:55-99, 165-247, PodcastPlayerScreen.kt:35-37).
THEOREM ScreensInvariant == Spec => []IInv
<1>1. Init => IInv
  <2> SUFFICES ASSUME Init PROVE IInv
    OBVIOUS
  <2>1. TypeOK
    BY SizeAssumption DEF Init, TypeOK, NoSession
  <2>2. Entries
    BY HomeIsProper DEF Init, Entries
  <2>3. SizesMatch /\ ShownWithAccess
    BY DEF Init, SizesMatch, ShownWithAccess
  <2> QED
    BY <2>1, <2>2, <2>3 DEF IInv
<1> QED
  BY <1>1, Invariance, PTL DEF Spec

\* However often the app is rotated, revoked and restored, the screens are shown with
\* access only, unless an empty result set the flag (MainActivity.kt:55-66, 87-99).
THEOREM AccessIsGranted == Spec => []ShownWithAccess
BY ScreensInvariant, PTL DEF IInv

\* However the user moves through the screens, a session runs for a deck that was set up
\* and with a size that was chosen (MainActivity.kt:223-233, PodcastPlayerScreen.kt:35-37).
THEOREM SessionsAreSetUp == Spec => []SessionWasSetUp
<1>1. IInv => SessionWasSetUp
  BY DEF IInv, SizesMatch, SessionWasSetUp
<1> QED
  BY <1>1, ScreensInvariant, PTL

=============================================================================
