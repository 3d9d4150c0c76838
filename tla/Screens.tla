------------------------------ MODULE Screens ------------------------------
(***************************************************************************)
(* The screens of MainActivity: the permission gate, the navigation between*)
(* deck list, session set-up, player and tabs, and the sync of the deck    *)
(* list.  The main thread runs one handler at a time; a composable's state *)
(* is lost when it leaves the composition and its LaunchedEffects run when *)
(* it enters it.  The sync coroutines run on Dispatchers.IO.               *)
(*                                                                         *)
(* Assumed of Android: a permission request made while another one is on   *)
(* screen is answered at once with an empty result, and revoking a         *)
(* permission kills the process.  Assumed of navigation-compose: saveState *)
(* keeps the entries it pops until restoreState brings them back or, the   *)
(* Home tab being the start destination, finds nothing to bring back.      *)
(***************************************************************************)
EXTENDS Naturals, Sequences, SequencesExt

CONSTANTS
  Deck, NoDeck,
  Tab,           \* the routes of the other three tabs
  Size,          \* the sizes DeckConfigScreen offers
  DefaultSize,   \* sessionSize of a new PodcastAgentViewModel
  SyncJob        \* bound: syncs at a time

ASSUME NoDeckAssumption == NoDeck \notin Deck
ASSUME TabAssumption == Tab \cap {"decks", "deck_config", "player"} = {}
ASSUME SizeAssumption == Size \subseteq Nat \ {0} /\ DefaultSize \in Nat

VARIABLES
  granted,             \* Android: AnkiDroid and microphone access are granted
  request,             \* a permission request is on screen
  permissionsGranted,  \* AnkiVoiceApp's remembered flag
  stack,               \* the back stack, the start destination first
  savedHome,           \* the entries a tab has saved from above the deck list
  sessionSize,         \* field of the activity's ViewModel
  decks, isRefreshing, \* state of DeckSelectionScreen
  collected,           \* syncEvent as that screen has last seen it
  syncEvent, sync,     \* the deck list's own ViewModel: its flow, its coroutines
  session,             \* history: deck and size of the last startSession
  chosen,              \* history: the size last chosen for each deck, 0 for none
  emptyResult,         \* history: the flag was last set by an empty result
  missed,              \* history: an event the progress bar waited for was not collected
  restored             \* history: the process has died and was restored

gate == <<granted, request, permissionsGranted, emptyResult>>
nav == <<stack, savedHome>>
list == <<decks, isRefreshing, collected>>
syncing == <<syncEvent, sync>>
vars == <<gate, nav, sessionSize, list, syncing, session, chosen, missed, restored>>

Entry(route, d) == [route |-> route, deck |-> d]
Home == Entry("decks", NoDeck)
Top == Last(stack)
NoSession == [deck |-> NoDeck, size |-> 0]

\* A handler of a screen can run: it is composed and no request covers it.
On(route) == permissionsGranted /\ ~request /\ Top.route = route

\* getDeckList: the decks, or none when AnkiDroid fails.
DeckList == {{}, Deck}

\* The entry on top enters the composition and its LaunchedEffects run.
Enter(top) ==
  /\ IF top.route = "decks"
     THEN decks' \in DeckList /\ isRefreshing' = FALSE /\ collected' = syncEvent'
     ELSE UNCHANGED list
  /\ session' = IF top.route = "player"
                THEN [deck |-> top.deck, size |-> sessionSize'] ELSE session

Init ==
  /\ granted \in BOOLEAN
  /\ permissionsGranted = granted
  /\ request = ~granted
  /\ stack = <<Home>> /\ savedHome = <<>>
  /\ sessionSize = DefaultSize
  /\ decks \in DeckList /\ isRefreshing = FALSE
  /\ collected = FALSE /\ syncEvent = FALSE
  /\ sync = [j \in SyncJob |-> "done"]
  /\ session = NoSession
  /\ chosen = [d \in Deck |-> 0]
  /\ emptyResult = FALSE /\ missed = FALSE /\ restored = FALSE

-----------------------------------------------------------------------------
(* The permission gate.                                                    *)

\* The result of the request: the flag is set, the screens behind it appear.
Answer(allow) ==
  /\ request
  /\ request' = FALSE
  /\ granted' = allow
  /\ permissionsGranted' = allow
  /\ emptyResult' = FALSE
  /\ UNCHANGED <<nav, sessionSize, syncing, chosen, missed, restored>>
  /\ IF allow THEN Enter(Top) ELSE UNCHANGED <<list, session>>

\* The overlay's button.
GrantAccess ==
  /\ ~permissionsGranted /\ ~request
  /\ request' = TRUE
  /\ UNCHANGED <<granted, permissionsGranted, emptyResult, nav, sessionSize, list, syncing,
                 session, chosen, missed, restored>>

\* A rotation: the flag is computed anew and, without access, LaunchedEffect
\* requests it again; beside a request on screen the result comes back empty,
\* and all { it } of no values is true.
Recreate ==
  /\ permissionsGranted' = (granted \/ request)
  /\ emptyResult' = (~granted /\ request)
  /\ request' = ~granted
  /\ UNCHANGED <<granted, nav, sessionSize, syncing, chosen, missed, restored>>
  /\ IF permissionsGranted' THEN Enter(Top) ELSE UNCHANGED <<list, session>>

\* Mutant: the flag is saved with the instance state.
ProcessDeathKeepsFlag ==
  /\ granted' \in {FALSE, granted}
  /\ UNCHANGED <<permissionsGranted, emptyResult, nav, chosen, missed>>
  /\ request' = FALSE
  /\ sessionSize' = DefaultSize
  /\ syncEvent' = FALSE /\ sync' = [j \in SyncJob |-> "done"]
  /\ restored' = TRUE
  /\ IF permissionsGranted' THEN Enter(Top) ELSE UNCHANGED <<list, session>>

\* The process dies in the background, by itself or with a revoked permission,
\* and is restored: the back stack survives, the ViewModels do not.
ProcessDeath ==
  /\ granted' \in {FALSE, granted}
  /\ permissionsGranted' = granted'
  /\ request' = ~granted'
  /\ emptyResult' = FALSE
  /\ UNCHANGED <<nav, chosen, missed>>
  /\ sessionSize' = DefaultSize
  /\ syncEvent' = FALSE /\ sync' = [j \in SyncJob |-> "done"]
  /\ restored' = TRUE
  /\ IF permissionsGranted' THEN Enter(Top) ELSE UNCHANGED <<list, session>>

-----------------------------------------------------------------------------
(* Navigation.                                                             *)

Goto(entries) ==
  /\ stack' = entries
  /\ UNCHANGED <<gate, syncing, missed, restored>>
  /\ Enter(Last(entries))

SelectDeck(d) ==
  /\ On("decks") /\ d \in decks
  /\ UNCHANGED <<sessionSize, savedHome, chosen>>
  /\ Goto(Append(stack, Entry("deck_config", d)))

\* Mutant: the ViewModel is not told.
StartUnconfigured(size) ==
  /\ On("deck_config")
  /\ chosen' = [chosen EXCEPT ![Top.deck] = size]
  /\ UNCHANGED <<sessionSize, savedHome>>
  /\ Goto(Append(stack, Entry("player", Top.deck)))

\* START VOICE SESSION: configureSession, then the player, which starts it.
Start(size) ==
  /\ On("deck_config")
  /\ sessionSize' = size
  /\ chosen' = [chosen EXCEPT ![Top.deck] = size]
  /\ UNCHANGED savedHome
  /\ Goto(Append(stack, Entry("player", Top.deck)))

Back ==
  /\ permissionsGranted /\ ~request /\ Len(stack) > 1
  /\ UNCHANGED <<sessionSize, savedHome, chosen>>
  /\ Goto(Front(stack))

\* popUpTo the start destination with saveState, then the tab.
OpenTab(tab) ==
  /\ permissionsGranted /\ ~request /\ Top.route # tab
  /\ savedHome' = IF Len(stack) = 1 \/ Top.route \in Tab THEN savedHome ELSE Tail(stack)
  /\ UNCHANGED <<sessionSize, chosen>>
  /\ Goto(<<Home, Entry(tab, NoDeck)>>)

\* The Home tab: restoreState of what another tab has saved, also when only the deck
\* list is left, or of what it has just popped.
OpenHome ==
  /\ permissionsGranted /\ ~request
  /\ Len(stack) > 1 \/ savedHome # <<>>
  /\ savedHome' = <<>>
  /\ UNCHANGED <<sessionSize, chosen>>
  /\ \/ Goto(<<Home>> \o (IF Len(stack) = 1 \/ Top.route \in Tab THEN savedHome ELSE Tail(stack)))
     \/ Len(stack) > 1 /\ Goto(<<Home>>)

\* START PRACTICE on a Discover card: no destination matches the route, the
\* navigation throws, and the app is launched anew.
StartFeatured ==
  /\ On("discover")
  /\ UNCHANGED <<granted, request, permissionsGranted, emptyResult, missed>>
  /\ stack' = <<Home>> /\ savedHome' = <<>>
  /\ sessionSize' = DefaultSize
  /\ syncEvent' = FALSE /\ sync' = [j \in SyncJob |-> "done"]
  /\ chosen' = [d \in Deck |-> 0] /\ restored' = FALSE
  /\ decks' \in DeckList /\ isRefreshing' = FALSE /\ collected' = FALSE
  /\ session' = NoSession

-----------------------------------------------------------------------------
(* syncWithAnkiDroid.                                                      *)

SyncGoto(j, from, to) == sync[j] = from /\ sync' = [sync EXCEPT ![j] = to]
others == <<gate, nav, sessionSize, session, chosen, restored>>

\* The deck list shows its progress bar.
Waiting == permissionsGranted /\ Top = Home /\ isRefreshing

\* The event becomes null, whether the screen has collected it or not.
EventGone ==
  /\ syncEvent' = FALSE
  /\ missed' = (missed \/ (Waiting /\ syncEvent /\ ~collected))

\* "Sync AnkiDroid" of an empty list, or the hint that stands above the decks
\* while no progress bar does.
RequestSync(j) ==
  /\ On("decks") /\ (decks = {} \/ ~isRefreshing)
  /\ SyncGoto(j, "done", "clear")
  /\ isRefreshing' = TRUE
  /\ UNCHANGED <<others, decks, collected, syncEvent, missed>>

ClearEvent(j) ==
  /\ SyncGoto(j, "clear", "query")
  /\ EventGone
  /\ UNCHANGED <<others, list>>

\* Mutant: the event is not raised when AnkiDroid has answered.
PublishForgotten(j) ==
  /\ SyncGoto(j, "query", "hold")
  /\ UNCHANGED <<others, list, syncEvent, missed>>

\* getDeckList has returned, its result unused.  To a screen that still has the
\* event of an earlier sync this one is nothing new.
PublishEvent(j) ==
  /\ SyncGoto(j, "query", "hold")
  /\ syncEvent' = TRUE
  /\ missed' = (missed \/ (Waiting /\ collected))
  /\ UNCHANGED <<others, list>>

\* delay(2000) and no longer: a stopped activity draws no frame, so the screen may
\* not have collected the event by then.
RetractEvent(j) ==
  /\ SyncGoto(j, "hold", "done")
  /\ EventGone
  /\ UNCHANGED <<others, list>>

\* The screen collects the latest value; values in between are never seen, and
\* an equal one does not restart LaunchedEffect(syncEvent).
Collect ==
  /\ permissionsGranted /\ Top.route = "decks"
  /\ collected # syncEvent
  /\ collected' = syncEvent
  /\ IF syncEvent THEN decks' \in DeckList /\ isRefreshing' = FALSE
                  ELSE UNCHANGED <<decks, isRefreshing>>
  /\ UNCHANGED <<others, syncing, missed>>

SyncStep(j) == ClearEvent(j) \/ PublishEvent(j) \/ RetractEvent(j)

Next ==
  \/ \E allow \in BOOLEAN : Answer(allow)
  \/ GrantAccess \/ Recreate \/ ProcessDeath
  \/ \E d \in Deck : SelectDeck(d)
  \/ \E size \in Size : Start(size)
  \/ Back \/ OpenHome \/ StartFeatured
  \/ \E tab \in Tab : OpenTab(tab)
  \/ \E j \in SyncJob : RequestSync(j) \/ SyncStep(j)
  \/ Collect

\* The dispatcher runs the sync, the main thread collects what it publishes.
Spec == Init /\ [][Next]_vars /\ WF_vars(Collect) /\ \A j \in SyncJob : WF_vars(SyncStep(j))

-----------------------------------------------------------------------------
\* The screens are only shown with access to AnkiDroid and the microphone,
\* whatever was rotated, revoked or restored in between, unless the flag was
\* last set by an empty result (MainActivity.kt:55-66, 87-99).
ShownWithAccess == permissionsGranted /\ ~emptyResult => granted

\* A session is for a deck the user has set up and has a size the user chose, also
\* when a rotation, the Back button or the tabs enter the player again, unless the
\* process died meanwhile (MainActivity.kt:223-233, PodcastPlayerScreen.kt:35-37).
SessionWasSetUp ==
  session # NoSession /\ ~restored =>
    /\ chosen[session.deck] # 0
    /\ \E d \in Deck : session.size = chosen[d]

\* The progress bar of the deck list goes away, however syncs overlap and screens
\* are left and entered again, unless the event it waited for was gone before the
\* screen had collected it (DeckSelectionScreen.kt:37-49, 104-107).
RefreshEnds == [](~missed) => (Waiting ~> ~Waiting)

=============================================================================
