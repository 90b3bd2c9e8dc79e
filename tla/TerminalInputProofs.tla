------------------------- MODULE TerminalInputProofs -------------------------
(***************************************************************************)
(* The menus and the draft of the prompt, and the keys that the decoder    *)
(* makes of the bytes, for any keys, commands, models, prompts and editor, *)
(* however the bytes are read.                                             *)
(***************************************************************************)
EXTENDS TerminalInput, SequenceTheorems, NaturalsInduction, WellFoundedInduction, TLAPS

-----------------------------------------------------------------------------
(* Numbers. *)

\* A set of numbers that is not empty has a least.
LEMMA LeastNat ==
    ASSUME NEW T \in SUBSET Nat, T # {}
    PROVE  \E m \in T : \A k \in T : m <= k
<1>1. PICK m \in T : \A k \in T : <<k, m>> \notin OpToRel(<, Nat)
  BY WFMin, NatLessThanWellFounded, Zenon
<1>2. \A k \in T : ~(k < m)
  BY <1>1, Zenon DEF OpToRel
<1> QED BY <1>2

\* Induction over the numbers, for a set.
LEMMA AllNats ==
    ASSUME NEW T \in SUBSET Nat, 0 \in T, \A n \in T : n + 1 \in T
    PROVE  T = Nat
<1> SUFFICES ASSUME Nat \ T # {} PROVE FALSE
  OBVIOUS
<1>1. PICK m \in Nat \ T : \A k \in Nat \ T : m <= k
  BY LeastNat
<1>2. m # 0 /\ m - 1 \in Nat /\ ~(m <= m - 1)
  OBVIOUS
<1>3. m - 1 \in T
  BY <1>1, <1>2
<1> QED BY <1>1, <1>3

\* One step back in the history stays in it.
LEMMA OneBack ==
    ASSUME NEW index \in Nat, index # 0
    PROVE  Max({1, index - 1}) \in 1..index
<1> DEFINE T == {1, index - 1}
<1>1. PICK m \in T : \A y \in T : m >= y
  <2>1. CASE index = 1
    <3>1. 1 \in T /\ \A y \in T : 1 >= y
      BY <2>1
    <3> QED BY <3>1
  <2>2. CASE index # 1
    <3>1. index - 1 \in T /\ \A y \in T : index - 1 >= y
      BY <2>2
    <3> QED BY <3>1
  <2> QED BY <2>1, <2>2
<1> HIDE DEF T
<1>2. Max(T) \in T /\ \A y \in T : Max(T) >= y
  BY <1>1 DEF Max
<1> QED BY <1>2 DEF T

-----------------------------------------------------------------------------
(* The names of a list that are wanted, in their order. *)

\* The function that Those reads.
Walks(f, names, wanted, n) ==
    f = [k \in 0..n |->
           IF k = 0 THEN <<>>
           ELSE IF names[k] \in wanted THEN Append(f[k - 1], names[k]) ELSE f[k - 1]]

\* There is one: by induction on the number of names it goes through.
LEMMA WalkExists ==
    ASSUME NEW names, NEW wanted
    PROVE  \A n \in Nat : \E f : Walks(f, names, wanted, n)
<1> DEFINE T == {n \in Nat : \E f : Walks(f, names, wanted, n)}
           Item(f, k) == IF k = 0 THEN <<>>
                         ELSE IF names[k] \in wanted THEN Append(f[k - 1], names[k])
                         ELSE f[k - 1]
<1>1. 0 \in T
  <2>1. Walks([k \in 0..0 |-> <<>>], names, wanted, 0)
    BY DEF Walks
  <2> QED BY <2>1
<1>2. ASSUME NEW n \in T PROVE n + 1 \in T
  <2>1. PICK f : Walks(f, names, wanted, n)
    OBVIOUS
  <2>2. n \in Nat
    OBVIOUS
  <2> DEFINE more == [k \in 0..(n + 1) |->
                        IF k <= n THEN f[k]
                        ELSE IF names[n + 1] \in wanted THEN Append(f[n], names[n + 1]) ELSE f[n]]
  <2>3. ASSUME NEW k \in 0..n PROVE more[k] = Item(more, k)
    <3>1. more[k] = f[k] /\ (k # 0 => more[k - 1] = f[k - 1])
      BY <2>2
    <3>2. f[k] = Item(f, k)
      BY <2>1 DEF Walks
    <3> HIDE DEF more
    <3> QED BY <3>1, <3>2
  <2>4. more[n + 1] = Item(more, n + 1)
    <3>1. /\ more[n + 1] = IF names[n + 1] \in wanted THEN Append(more[n], names[n + 1])
                           ELSE more[n]
          /\ n + 1 # 0 /\ (n + 1) - 1 = n
      BY <2>2
    <3> HIDE DEF more
    <3> QED BY <3>1
  <2>5. \A k \in 0..(n + 1) : k \in 0..n \/ k = n + 1
    BY <2>2
  <2> HIDE DEF more, Item
  <2>6. \A k \in 0..(n + 1) : more[k] = Item(more, k)
    BY <2>3, <2>4, <2>5
  <2>7. more = [k \in 0..(n + 1) |-> more[k]]
    BY DEF more
  <2>8. Walks(more, names, wanted, n + 1)
    BY <2>6, <2>7 DEF Walks, Item
  <2> QED BY <2>8
<1> HIDE DEF T, Item
<1>3. T \in SUBSET Nat
  BY DEF T
<1>4. T = Nat
  BY <1>1, <1>2, <1>3, AllNats
<1> QED BY <1>4 DEF T

\* They are some of the list's.
LEMMA ThoseType ==
    ASSUME NEW S, NEW names \in Seq(S), NEW wanted
    PROVE  Those(names, wanted) \in Seq(S)
<1>1. Len(names) \in Nat
  OBVIOUS
<1>2. PICK any : Walks(any, names, wanted, Len(names))
  BY <1>1, WalkExists
<1>3. PICK f : Walks(f, names, wanted, Len(names)) /\ Those(names, wanted) = f[Len(names)]
  BY <1>2 DEF Walks, Those
<1> DEFINE T == {k \in Nat : k <= Len(names) => f[k] \in Seq(S)}
<1>4. \A k \in 0..Len(names) :
        f[k] = IF k = 0 THEN <<>>
               ELSE IF names[k] \in wanted THEN Append(f[k - 1], names[k]) ELSE f[k - 1]
  BY <1>3 DEF Walks
<1>5. 0 \in T
  <2>1. 0 \in 0..Len(names)
    BY <1>1
  <2>2. f[0] = <<>> /\ <<>> \in Seq(S)
    BY <1>4, <2>1
  <2> QED BY <2>2
<1>6. ASSUME NEW k \in T PROVE k + 1 \in T
  <2>1. k \in Nat
    OBVIOUS
  <2>2. SUFFICES ASSUME k + 1 <= Len(names) PROVE f[k + 1] \in Seq(S)
    BY <2>1
  <2>3. /\ k + 1 \in 0..Len(names) /\ k + 1 # 0 /\ (k + 1) - 1 = k
        /\ f[k] \in Seq(S) /\ names[k + 1] \in S
    BY <2>1, <2>2, ElementOfSeq
  <2>4. Append(f[k], names[k + 1]) \in Seq(S)
    BY <2>3, AppendProperties
  <2> QED BY <1>4, <2>3, <2>4
<1> HIDE DEF T
<1>7. T \in SUBSET Nat
  BY DEF T
<1>8. T = Nat
  BY <1>5, <1>6, <1>7, AllNats
<1> QED BY <1>1, <1>3, <1>8 DEF T

\* The commands that a text matches and the models of a filter are lists.
LEMMA CommandsOfType ==
    ASSUME NEW text PROVE CommandsOf(text) \in Seq(Range(Commands))
<1>1. Commands \in Seq(Range(Commands))
  BY TerminalInputAssumption
<1>2. Those(Commands, {name \in Range(Commands) : IsPrefix(text, name)}) \in Seq(Range(Commands))
  BY <1>1, ThoseType
<1> QED BY <1>2, EmptySeq DEF CommandsOf

LEMMA CandidatesType ==
    ASSUME NEW p PROVE Candidates(p) \in Seq(Range(Models))
<1>1. Models \in Seq(Range(Models))
  BY TerminalInputAssumption
<1> QED BY <1>1, ThoseType DEF Candidates

-----------------------------------------------------------------------------
(* The prompt. *)

Fields == {"buffer", "history", "index", "draft", "menu", "surface", "filter", "selected"}

\* The place in the history, and a draft while it is not the composer's own text.
HistoryFits(p) ==
    /\ p.history \in Seq(Range(p.history)) /\ p.index \in 0..Len(p.history)
    /\ p.index # 0 => p.draft = [text |-> p.draft.text]

\* A picker that shows something has one of it selected.
Surfaces == {"none", "help", "picker", "detail"}
PickerFits(p) ==
    /\ p.surface \in Surfaces
    /\ p.surface = "picker" /\ Candidates(p) # <<>> => p.selected \in DOMAIN Candidates(p)

\* A menu that may belong to an earlier text, and one that belongs to this one.
MenuBase(p) ==
    /\ DOMAIN p.menu = {"selected", "prefix", "matches"}
    /\ Shown(p) => p.menu.selected \in Nat \ {0}
MenuFits(p) ==
    /\ DOMAIN p.menu = {"selected", "prefix", "matches"}
    /\ Shown(p) =>
         /\ p.menu.prefix = p.buffer.text /\ p.menu.matches = CommandsOf(p.buffer.text)
         /\ p.menu.selected \in DOMAIN p.menu.matches

Half(p) == DOMAIN p = Fields /\ HistoryFits(p) /\ PickerFits(p) /\ MenuBase(p)
Whole(p) == DOMAIN p = Fields /\ HistoryFits(p) /\ PickerFits(p) /\ MenuFits(p)

\* The same place in the history, and what a step may make of it.
Stays(p, q) == q.history = p.history /\ q.index = p.index /\ q.draft = p.draft
Moves(p, q, event) ==
    /\ p.index = 0 /\ q.index # 0 => q.draft = [text |-> p.buffer.text]
    /\ p.index # 0 /\ q.index # 0 => q.draft = p.draft
    /\ p.index # 0 /\ q.index = 0 /\ q.history = p.history =>
         \/ q.buffer = AtEnd(p.draft.text)
         \/ q.draft = NoEvent /\ event = Key("enter")

\* A menu that belongs to its text has a row selected.
LEMMA WholeHalf == ASSUME NEW p, Whole(p) PROVE Half(p)
<1>1. CommandsOf(p.buffer.text) \in Seq(Range(Commands))
  BY CommandsOfType
<1>2. DOMAIN CommandsOf(p.buffer.text) = 1..Len(CommandsOf(p.buffer.text))
      /\ Len(CommandsOf(p.buffer.text)) \in Nat
  BY <1>1
<1>3. MenuBase(p)
  BY <1>2 DEF Whole, MenuFits, MenuBase
<1> QED BY <1>3 DEF Whole, Half

\* A prompt that stays in its place moves nowhere.
LEMMA StaysMoves == ASSUME NEW p, NEW q, NEW event, Stays(p, q), HistoryFits(p)
                    PROVE  HistoryFits(q) /\ Moves(p, q, event)
BY DEF Stays, Moves, HistoryFits

\* refresh_command_completion: the menu is one of the text.
LEMMA RefreshedFits ==
    ASSUME NEW p, Half(p)
    PROVE  Whole(Refreshed(p)) /\ Stays(p, Refreshed(p)) /\ Refreshed(p).buffer = p.buffer
<1> DEFINE matches == CommandsOf(p.buffer.text)
           first == First(IF Shown(p) THEN p.menu.selected ELSE 1, Len(matches))
           menu == IF matches = <<>> THEN NoMenu
                   ELSE [prefix |-> p.buffer.text, matches |-> matches, selected |-> first]
           q == Refreshed(p)
<1>1. matches \in Seq(Range(Commands))
  BY CommandsOfType
<1>2. q = [p EXCEPT !.menu = menu]
  BY DEF Refreshed
<1>3. DOMAIN p = Fields
  BY DEF Half
<1> HIDE DEF q, menu
<1>4. /\ DOMAIN q = Fields /\ q.menu = menu /\ q.buffer = p.buffer /\ q.history = p.history
      /\ q.index = p.index /\ q.draft = p.draft /\ q.surface = p.surface
      /\ q.filter = p.filter /\ q.selected = p.selected
  BY <1>2, <1>3 DEF Fields
<1>5. matches # <<>> => first \in DOMAIN matches
  <2> HIDE DEF matches
  <2>1. SUFFICES ASSUME matches # <<>> PROVE first \in DOMAIN matches
    OBVIOUS
  <2>2. DOMAIN matches = 1..Len(matches) /\ Len(matches) \in Nat /\ Len(matches) # 0
    BY <1>1, <2>1, EmptySeq
  <2>3. (IF Shown(p) THEN p.menu.selected ELSE 1) \in Nat \ {0}
    BY DEF Half, MenuBase
  <2> QED BY <2>2, <2>3 DEF First
<1>6. MenuFits(q)
  <2>1. CASE matches = <<>>
    <3>1. q.menu = NoMenu
      BY <1>4, <2>1 DEF menu
    <3> QED BY <3>1 DEF MenuFits, Shown, NoMenu
  <2>2. CASE matches # <<>>
    <3>1. q.menu = [prefix |-> p.buffer.text, matches |-> matches, selected |-> first]
      BY <1>4, <2>2 DEF menu
    <3> HIDE DEF first, matches
    <3>2. /\ DOMAIN q.menu = {"selected", "prefix", "matches"}
          /\ q.menu.prefix = p.buffer.text /\ q.menu.matches = matches /\ q.menu.selected = first
      BY <3>1
    <3> QED BY <1>4, <1>5, <2>2, <3>2 DEF MenuFits, matches
  <2> QED BY <2>1, <2>2
<1>7. Stays(p, q)
  BY <1>4 DEF Stays
<1>8. HistoryFits(q)
  BY <1>7, StaysMoves DEF Half
<1>9. PickerFits(q)
  BY <1>4 DEF Half, PickerFits, Candidates
<1> QED BY <1>4, <1>6, <1>7, <1>8, <1>9 DEF Whole, q

\* A menu that is closed fits any text.
LEMMA ClosedFits == ASSUME NEW p, Half(p), p.menu = NoMenu PROVE Whole(p)
BY DEF Half, Whole, MenuFits, Shown, NoMenu

\* set_surface and close_surface, from a prompt whose menu may be stale.
LEMMA OnFits ==
    ASSUME NEW p, Half(p), NEW surface \in Surfaces
    PROVE  Whole(On(p, surface)) /\ Stays(p, On(p, surface)) /\ On(p, surface).buffer = p.buffer
<1> DEFINE q == On(p, surface)
<1>1. /\ DOMAIN q = Fields /\ q.menu = NoMenu /\ q.buffer = p.buffer /\ q.history = p.history
      /\ q.index = p.index /\ q.draft = p.draft /\ q.surface = surface
      /\ q.filter = <<>> /\ q.selected = 1
  BY DEF On, Half, Fields
<1> HIDE DEF q
<1>2. Stays(p, q)
  BY <1>1 DEF Stays
<1>3. HistoryFits(q)
  BY <1>2, StaysMoves DEF Half
<1>4. PickerFits(q)
  <2>1. Candidates(q) \in Seq(Range(Models))
    BY CandidatesType
  <2>2. Candidates(q) # <<>> => 1 \in DOMAIN Candidates(q)
    BY <2>1, EmptySeq
  <2> QED BY <1>1, <2>2 DEF PickerFits
<1>5. MenuFits(q)
  BY <1>1 DEF MenuFits, Shown, NoMenu
<1> QED BY <1>1, <1>2, <1>3, <1>4, <1>5 DEF Whole, q

\* Another buffer, beside a menu that may be stale.
LEMMA BufferChanges ==
    ASSUME NEW p, Half(p), NEW buffer
    PROVE  LET q == [p EXCEPT !.buffer = buffer]
           IN Half(q) /\ Stays(p, q) /\ q.buffer = buffer /\ q.menu = p.menu
<1> DEFINE q == [p EXCEPT !.buffer = buffer]
<1>1. /\ DOMAIN q = Fields /\ q.menu = p.menu /\ q.buffer = buffer /\ q.history = p.history
      /\ q.index = p.index /\ q.draft = p.draft /\ q.surface = p.surface
      /\ q.filter = p.filter /\ q.selected = p.selected
  BY DEF Half, Fields
<1> HIDE DEF q
<1>2. Stays(p, q)
  BY <1>1 DEF Stays
<1>3. HistoryFits(q)
  BY <1>2, StaysMoves DEF Half
<1>4. PickerFits(q) /\ MenuBase(q)
  BY <1>1 DEF Half, PickerFits, Candidates, MenuBase, Shown
<1> QED BY <1>1, <1>2, <1>3, <1>4 DEF Half, q

\* The menu is closed.
LEMMA MenuCloses ==
    ASSUME NEW p, Half(p)
    PROVE  LET q == [p EXCEPT !.menu = NoMenu]
           IN Whole(q) /\ Stays(p, q) /\ q.buffer = p.buffer /\ q.menu = NoMenu
<1> DEFINE q == [p EXCEPT !.menu = NoMenu]
<1>1. /\ DOMAIN q = Fields /\ q.menu = NoMenu /\ q.buffer = p.buffer /\ q.history = p.history
      /\ q.index = p.index /\ q.draft = p.draft /\ q.surface = p.surface
      /\ q.filter = p.filter /\ q.selected = p.selected
  BY DEF Half, Fields
<1> HIDE DEF q
<1>2. Stays(p, q)
  BY <1>1 DEF Stays
<1>3. HistoryFits(q)
  BY <1>2, StaysMoves DEF Half
<1>4. PickerFits(q) /\ MenuFits(q)
  BY <1>1 DEF Half, PickerFits, Candidates, MenuFits, Shown, NoMenu
<1> QED BY <1>1, <1>2, <1>3, <1>4 DEF Whole, q

\* complete_command: the menu is closed, or was.
LEMMA CompletedFits ==
    ASSUME NEW p, Whole(p)
    PROVE  Whole(Completed(p)) /\ Stays(p, Completed(p))
<1>1. Half(p)
  BY WholeHalf
<1>2. CASE CommandsOf(p.buffer.text) = <<>>
  <2>1. Completed(p) = p
    BY <1>2 DEF Completed
  <2> QED BY <2>1 DEF Stays
<1>3. CASE CommandsOf(p.buffer.text) # <<>>
  <2> DEFINE quiet == [p EXCEPT !.menu = NoMenu]
             buffer == AtEnd((IF Shown(p) THEN Chosen(p) ELSE Head(CommandsOf(p.buffer.text)))
                               \o <<" ">>)
             q == [quiet EXCEPT !.buffer = buffer]
  <2>1. Completed(p) = q
    BY <1>3 DEF Completed
  <2>2. Whole(quiet) /\ Stays(p, quiet) /\ quiet.menu = NoMenu
    BY <1>1, MenuCloses
  <2> HIDE DEF quiet, buffer
  <2>3. Half(q) /\ Stays(quiet, q) /\ q.menu = NoMenu
    BY <2>2, WholeHalf, BufferChanges
  <2>4. Whole(q) /\ Stays(p, q)
    BY <2>2, <2>3, ClosedFits DEF Stays
  <2> QED BY <2>1, <2>4
<1> QED BY <1>2, <1>3

\* record_history: the place in the history is left.
LEMMA RecordedFits ==
    ASSUME NEW p, Half(p), NEW text
    PROVE  LET q == Recorded(p, text)
           IN Half(q) /\ q.index = 0 /\ q.draft = NoEvent /\ q.menu = p.menu /\ q.buffer = p.buffer
<1> DEFINE q == Recorded(p, text)
           history == IF p.history # <<>> /\ Last(p.history) = text THEN p.history
                      ELSE Append(p.history, text)
<1>1. q = [p EXCEPT !.history = history, !.index = 0, !.draft = NoEvent]
  BY DEF Recorded
<1> HIDE DEF q, history
<1>2. /\ DOMAIN q = Fields /\ q.menu = p.menu /\ q.buffer = p.buffer /\ q.history = history
      /\ q.index = 0 /\ q.draft = NoEvent /\ q.surface = p.surface
      /\ q.filter = p.filter /\ q.selected = p.selected
  BY <1>1 DEF Half, Fields
<1>3. p.history \in Seq(Range(p.history) \cup {text})
  BY SeqMonotonic DEF Half, HistoryFits
<1>4. history \in Seq(Range(p.history) \cup {text})
  BY <1>3, AppendProperties DEF history
<1>5. history \in Seq(Range(history))
  BY <1>4, SeqOfRange
<1>6. HistoryFits(q)
  <2>1. Len(history) \in Nat
    BY <1>5
  <2> QED BY <1>2, <1>5, <2>1 DEF HistoryFits
<1>7. PickerFits(q) /\ MenuBase(q)
  BY <1>2 DEF Half, PickerFits, Candidates, MenuBase, Shown
<1> QED BY <1>2, <1>6, <1>7 DEF Half, q

\* history_previous.
LEMMA BackMoves ==
    ASSUME NEW p, Half(p), NEW event
    PROVE  Half(Back(p)) /\ Moves(p, Back(p), event)
<1> DEFINE draft == IF p.index = 0 THEN [text |-> p.buffer.text] ELSE p.draft
           index == IF p.index = 0 THEN Len(p.history) ELSE Max({1, p.index - 1})
           q == Back(p)
<1>1. DOMAIN p = Fields /\ p.history \in Seq(Range(p.history)) /\ p.index \in 0..Len(p.history)
      /\ Len(p.history) \in Nat /\ (p.index # 0 => p.draft = [text |-> p.draft.text])
  BY DEF Half, HistoryFits
<1>2. draft = [text |-> draft.text]
  BY <1>1
<1>3. CASE p.history = <<>>
  <2> HIDE DEF draft
  <2>1. q = [p EXCEPT !.draft = draft]
    BY <1>3 DEF Back, draft
  <2> HIDE DEF q
  <2>2. /\ DOMAIN q = Fields /\ q.menu = p.menu /\ q.buffer = p.buffer /\ q.history = p.history
        /\ q.index = p.index /\ q.draft = draft /\ q.surface = p.surface
        /\ q.filter = p.filter /\ q.selected = p.selected
    BY <1>1, <2>1 DEF Fields
  <2>3. p.index = 0
    BY <1>1, <1>3
  <2>4. HistoryFits(q) /\ Moves(p, q, event)
    BY <1>1, <2>2, <2>3 DEF HistoryFits, Moves
  <2>5. PickerFits(q) /\ MenuBase(q)
    BY <2>2 DEF Half, PickerFits, Candidates, MenuBase, Shown
  <2> QED BY <2>2, <2>4, <2>5 DEF Half, q
<1>4. CASE p.history # <<>>
  <2>1. index \in 1..Len(p.history)
    <3>1. CASE p.index = 0
      BY <1>1, <1>4, <3>1
    <3>2. CASE p.index # 0
      <4>1. Max({1, p.index - 1}) \in 1..p.index
        BY <1>1, <3>2, OneBack
      <4> QED BY <1>1, <3>2, <4>1
    <3> QED BY <3>1, <3>2
  <2>2. q = [p EXCEPT !.draft = draft, !.index = index, !.buffer = AtEnd(p.history[index])]
    BY <1>4 DEF Back
  <2>3. /\ p.index = 0 => draft = [text |-> p.buffer.text]
        /\ p.index # 0 => draft = p.draft
    OBVIOUS
  <2> HIDE DEF q, draft, index
  <2>4. /\ DOMAIN q = Fields /\ q.menu = p.menu /\ q.history = p.history
        /\ q.index = index /\ q.draft = draft /\ q.surface = p.surface
        /\ q.filter = p.filter /\ q.selected = p.selected
    BY <1>1, <2>2 DEF Fields
  <2>5. HistoryFits(q) /\ Moves(p, q, event)
    BY <1>1, <1>2, <2>1, <2>3, <2>4 DEF HistoryFits, Moves
  <2>6. PickerFits(q) /\ MenuBase(q)
    BY <2>4 DEF Half, PickerFits, Candidates, MenuBase, Shown
  <2> QED BY <2>4, <2>5, <2>6 DEF Half, q
<1> QED BY <1>3, <1>4

\* history_next: after the newest prompt, the draft.
LEMMA ForwardMoves ==
    ASSUME NEW p, Half(p), NEW event
    PROVE  Half(Forward(p)) /\ Moves(p, Forward(p), event)
<1> DEFINE q == Forward(p)
<1>1. DOMAIN p = Fields /\ p.history \in Seq(Range(p.history)) /\ p.index \in 0..Len(p.history)
      /\ Len(p.history) \in Nat /\ (p.index # 0 => p.draft = [text |-> p.draft.text])
  BY DEF Half, HistoryFits
<1>2. CASE p.index = 0
  <2>1. q = p
    BY <1>2 DEF Forward
  <2> QED BY <1>2, <2>1 DEF Moves
<1>3. CASE p.index # 0 /\ p.index = Len(p.history)
  <2>1. p.draft # NoEvent
    <3>1. "text" \in DOMAIN p.draft /\ "text" \notin DOMAIN NoEvent
      BY <1>1, <1>3 DEF NoEvent
    <3> QED BY <3>1
  <2>2. q = [p EXCEPT !.index = 0, !.draft = NoEvent, !.buffer = AtEnd(p.draft.text)]
    BY <1>3, <2>1 DEF Forward
  <2> HIDE DEF q
  <2>3. /\ DOMAIN q = Fields /\ q.menu = p.menu /\ q.history = p.history
        /\ q.index = 0 /\ q.buffer = AtEnd(p.draft.text) /\ q.surface = p.surface
        /\ q.filter = p.filter /\ q.selected = p.selected
    BY <1>1, <2>2 DEF Fields
  <2>4. HistoryFits(q) /\ Moves(p, q, event)
    BY <1>1, <1>3, <2>3 DEF HistoryFits, Moves
  <2>5. PickerFits(q) /\ MenuBase(q)
    BY <2>3 DEF Half, PickerFits, Candidates, MenuBase, Shown
  <2> QED BY <2>3, <2>4, <2>5 DEF Half, q
<1>4. CASE p.index # 0 /\ p.index # Len(p.history)
  <2>1. q = [p EXCEPT !.index = p.index + 1, !.buffer = AtEnd(p.history[p.index + 1])]
    BY <1>4 DEF Forward
  <2> HIDE DEF q
  <2>2. /\ DOMAIN q = Fields /\ q.menu = p.menu /\ q.history = p.history /\ q.draft = p.draft
        /\ q.index = p.index + 1 /\ q.surface = p.surface
        /\ q.filter = p.filter /\ q.selected = p.selected
    BY <1>1, <2>1 DEF Fields
  <2>3. HistoryFits(q) /\ Moves(p, q, event)
    BY <1>1, <1>4, <2>2 DEF HistoryFits, Moves
  <2>4. PickerFits(q) /\ MenuBase(q)
    BY <2>2 DEF Half, PickerFits, Candidates, MenuBase, Shown
  <2> QED BY <2>2, <2>3, <2>4 DEF Half, q
<1> QED BY <1>2, <1>3, <1>4

-----------------------------------------------------------------------------
(* The outcomes of an event. *)

\* The place in the history is kept, or left.
Leaves(p, q) == Stays(p, q) \/ (q.index = 0 /\ q.draft = NoEvent)

LEMMA LeavesMoves ==
    ASSUME NEW p, NEW q, Leaves(p, q), HistoryFits(p) PROVE Moves(p, q, Key("enter"))
BY StaysMoves DEF Leaves, Moves

\* dispatch_command: the prompt is kept, perhaps under a surface.
LEMMA DispatchedFits ==
    ASSUME NEW p, Half(p), NEW text
    PROVE  \A next \in Dispatched(p, text) : Whole(next[1]) /\ Stays(p, next[1])
<1> DEFINE quiet == [p EXCEPT !.menu = NoMenu]
<1>1. Whole(quiet) /\ Stays(p, quiet) /\ Half(quiet)
  BY MenuCloses, WholeHalf
<1>2. \A surface \in Surfaces : Whole(On(quiet, surface)) /\ Stays(p, On(quiet, surface))
  BY <1>1, OnFits DEF Stays
<1> HIDE DEF quiet
<1>3. \A next \in Dispatched(p, text) :
        \/ next = <<quiet, agent>> \/ next = <<On(quiet, "help"), agent>>
        \/ next = <<On(quiet, "picker"), agent>>
  BY DEF Dispatched, With, quiet
<1> QED BY <1>1, <1>2, <1>3 DEF Surfaces

\* submit_composer, from a prompt whose menu may be stale.
LEMMA SubmittedFits ==
    ASSUME NEW p, Half(p)
    PROVE  \A next \in Submitted(p) :
             Half(next[1]) /\ Leaves(p, next[1]) /\ (p.menu = NoMenu => Whole(next[1]))
<1> DEFINE text == p.buffer.text
           taken == [p EXCEPT !.buffer = Empty]
           kept == Recorded(taken, text)
           back == [kept EXCEPT !.buffer = AtEnd(text)]
           Fits(q) == Half(q) /\ Leaves(p, q) /\ (p.menu = NoMenu => Whole(q))
<1>1. Half(taken) /\ Stays(p, taken) /\ taken.menu = p.menu
  BY BufferChanges
<1> HIDE DEF taken
<1>2. Half(kept) /\ kept.index = 0 /\ kept.draft = NoEvent /\ kept.menu = p.menu
  BY <1>1, RecordedFits
<1> HIDE DEF kept
<1>3. Half(back) /\ Stays(kept, back) /\ back.menu = p.menu
  BY <1>2, BufferChanges
<1> HIDE DEF back
<1>4. Fits(taken) /\ Fits(kept)
  BY <1>1, <1>2, ClosedFits DEF Leaves
<1>5. Fits(back)
  <2>1. Leaves(p, back)
    BY <1>2, <1>3 DEF Leaves, Stays
  <2> QED BY <1>3, <2>1, ClosedFits
<1>6. Fits(On(kept, "picker"))
  <2>1. Whole(On(kept, "picker")) /\ Stays(kept, On(kept, "picker"))
    BY <1>2, OnFits DEF Surfaces
  <2>2. Leaves(p, On(kept, "picker")) /\ Half(On(kept, "picker"))
    BY <1>2, <2>1, WholeHalf DEF Leaves, Stays
  <2> QED BY <2>1, <2>2
<1>7. \A next \in Dispatched(kept, text) : Fits(next[1])
  <2>1. \A next \in Dispatched(kept, text) : Whole(next[1]) /\ Stays(kept, next[1])
    BY <1>2, DispatchedFits
  <2>2. ASSUME NEW q, Whole(q), Stays(kept, q) PROVE Fits(q)
    BY <1>2, <2>2, WholeHalf DEF Leaves, Stays
  <2> HIDE DEF Fits
  <2> QED BY <2>1, <2>2
<1>8. \A next \in Submitted(p) :
        \/ next = <<taken, agent>> \/ next \in Dispatched(kept, text)
        \/ next[1] = kept \/ next[1] = back \/ next[1] = On(kept, "picker")
  BY DEF Submitted, With, taken, kept, back
<1> HIDE DEF Fits
<1>9. \A next \in Submitted(p) : Fits(next[1])
  BY <1>4, <1>5, <1>6, <1>7, <1>8
<1> QED BY <1>9 DEF Fits

\* A row further up or down, or the first or the last again.
LEMMA TurnedRow ==
    ASSUME NEW count \in Nat \ {0}, NEW row \in 1..count, NEW by \in {-1, 1}
    PROVE  Turned(row, by, count) \in 1..count
<1>1. (row - 1 + by) % count \in 0..(count - 1)
  OBVIOUS
<1> QED BY <1>1 DEF Turned

\* Another filter or row of the picker.
LEMMA PickerChanges ==
    ASSUME NEW p, Whole(p), NEW filter, NEW row,
           LET q == [p EXCEPT !.filter = filter, !.selected = row] IN PickerFits(q)
    PROVE  LET q == [p EXCEPT !.filter = filter, !.selected = row]
           IN Whole(q) /\ Stays(p, q)
<1> DEFINE q == [p EXCEPT !.filter = filter, !.selected = row]
<1>1. /\ DOMAIN q = Fields /\ q.menu = p.menu /\ q.buffer = p.buffer /\ q.history = p.history
      /\ q.index = p.index /\ q.draft = p.draft
  BY DEF Whole, Fields
<1>2. PickerFits(q)
  OBVIOUS
<1> HIDE DEF q
<1>3. Stays(p, q)
  BY <1>1 DEF Stays
<1>4. HistoryFits(q)
  BY <1>3, StaysMoves DEF Whole
<1>5. MenuFits(q)
  BY <1>1 DEF Whole, MenuFits, Shown
<1> QED BY <1>1, <1>2, <1>3, <1>4, <1>5 DEF Whole, q

\* The first row of a new filter is one of its rows.
LEMMA FilterFits ==
    ASSUME NEW p, Whole(p), NEW filter
    PROVE  LET q == [p EXCEPT !.filter = filter, !.selected = 1]
           IN Whole(q) /\ Stays(p, q)
<1> DEFINE q == [p EXCEPT !.filter = filter, !.selected = 1]
<1>1. q.selected = 1 /\ q.surface = p.surface /\ p.surface \in Surfaces
  BY DEF Whole, PickerFits, Fields
<1>2. Candidates(q) \in Seq(Range(Models))
  BY CandidatesType
<1>3. PickerFits(q)
  <2> HIDE DEF q
  <2>1. Candidates(q) # <<>> => 1 \in DOMAIN Candidates(q)
    BY <1>2, EmptySeq
  <2> QED BY <1>1, <2>1 DEF PickerFits
<1> QED BY <1>3, PickerChanges

\* handle_picker_key and picker_insert.
LEMMA PickerKeyFits ==
    ASSUME NEW p, Whole(p), p.surface = "picker", NEW event
    PROVE  \A next \in PickerKey(p, event) : Whole(next[1]) /\ Stays(p, next[1])
<1> DEFINE count == Len(Candidates(p))
           Fits(q) == Whole(q) /\ Stays(p, q)
<1>1. Fits(p)
  BY DEF Stays
<1>2. Fits(On(p, "none"))
  BY WholeHalf, OnFits DEF Surfaces
<1>3. \A filter : Fits([p EXCEPT !.filter = filter, !.selected = 1])
  BY FilterFits
<1>4. ASSUME NEW by \in {-1, 1}, count # 0
      PROVE  Fits([p EXCEPT !.selected = Turned(@, by, count)])
  <2> DEFINE row == Turned(p.selected, by, count)
             q == [p EXCEPT !.filter = p.filter, !.selected = row]
  <2>1. Candidates(p) \in Seq(Range(Models))
    BY CandidatesType
  <2>2. Candidates(p) # <<>> /\ DOMAIN Candidates(p) = 1..count /\ count \in Nat \ {0}
    BY <1>4, <2>1, EmptySeq
  <2>3. p.selected \in 1..count
    BY <2>2 DEF Whole, PickerFits
  <2> HIDE DEF count
  <2>4. row \in 1..count
    BY <2>2, <2>3, TurnedRow
  <2>5. /\ q.selected = row /\ q.filter = p.filter
        /\ q.surface = p.surface /\ p.surface \in Surfaces
    BY DEF Whole, PickerFits, Fields
  <2> HIDE DEF q
  <2>6. PickerFits(q)
    BY <2>2, <2>4, <2>5 DEF PickerFits, Candidates
  <2>7. Fits(q)
    BY <2>6, PickerChanges DEF q
  <2>8. q = [p EXCEPT !.selected = Turned(@, by, count)]
    BY DEF q, Whole, Fields
  <2> QED BY <2>7, <2>8
<1> HIDE DEF Fits
<1> DEFINE erased == IF p.filter = <<>> THEN p.filter ELSE Front(p.filter)
           typedKeys == {Key(char) : char \in {"a", "b", " ", "/"}}
           by == IF event = Key("up") THEN -1 ELSE 1
           turned == [p EXCEPT !.selected = Turned(@, by, count)]
<1>5. \A next \in PickerKey(p, event) :
        \/ next[1] = p \/ next[1] = On(p, "none")
        \/ next[1] = [p EXCEPT !.filter = erased, !.selected = 1]
        \/ next[1] = [p EXCEPT !.filter = Append(p.filter, event.code), !.selected = 1]
        \/ count # 0 /\ next[1] = turned
  <2>1. PickerKey(p, event) =
          CASE event = Key("esc") -> {<<On(p, "none"), agent>>}
            [] event \in {Key("up"), Key("down")} ->
                 {<<IF count = 0 THEN p ELSE turned, agent>>}
            [] event = Key("backspace") ->
                 {<<[p EXCEPT !.filter = erased, !.selected = 1], agent>>}
            [] event = Key("enter") ->
                 {<<p, agent>>} \cup
                   (IF p.selected <= count THEN {<<On(p, "none"), agent>>} ELSE {})
            [] event \in typedKeys ->
                 {<<[p EXCEPT !.filter = Append(p.filter, event.code), !.selected = 1], agent>>}
            [] OTHER -> {<<p, agent>>}
    BY Zenon DEF PickerKey, With
  <2> HIDE DEF typedKeys, by, turned, erased, count
  <2> QED BY <2>1
<1>6. \A next \in PickerKey(p, event) : Fits(next[1])
  <2>1. by \in {-1, 1}
    OBVIOUS
  <2>2. count # 0 => Fits(turned)
    BY <1>4, <2>1
  <2> HIDE DEF by, turned, erased, count
  <2> QED BY <1>1, <1>2, <1>3, <1>5, <2>2
<1> QED BY <1>6 DEF Fits

\* The keys of the command menu.
LEMMA MenuKeyFits ==
    ASSUME NEW p, Whole(p), Shown(p), NEW event \in MenuKeys
    PROVE  \A next \in MenuKey(p, event) : Whole(next[1]) /\ Moves(p, next[1], event)
<1> DEFINE count == Len(p.menu.matches)
           closed == [p EXCEPT !.menu = NoMenu]
           turned(by) == [p EXCEPT !.menu.selected = Turned(@, by, count)]
           taken == [p EXCEPT !.buffer = AtEnd(Chosen(p) \o <<" ">>), !.menu = NoMenu]
           Fits(q) == Whole(q) /\ Moves(p, q, event)
<1>1. Half(p) /\ HistoryFits(p)
  BY WholeHalf DEF Whole
<1>2. Fits(closed)
  BY <1>1, MenuCloses, StaysMoves
<1>3. Fits(Completed(p))
  BY <1>1, CompletedFits, StaysMoves
<1>4. ASSUME NEW by \in {-1, 1} PROVE Fits(turned(by))
  <2> DEFINE row == Turned(p.menu.selected, by, count)
             q == turned(by)
  <2>1. p.menu.matches \in Seq(Range(Commands)) /\ p.menu.selected \in DOMAIN p.menu.matches
    BY CommandsOfType DEF Whole, MenuFits
  <2>2. DOMAIN p.menu.matches = 1..count /\ count \in Nat \ {0}
    BY <2>1
  <2>3. row \in 1..count
    <3>1. p.menu.selected \in 1..count
      BY <2>1, <2>2
    <3> HIDE DEF count
    <3> QED BY <2>2, <3>1, TurnedRow
  <2>4. DOMAIN p = Fields /\ DOMAIN p.menu = {"selected", "prefix", "matches"}
    BY DEF Whole, MenuFits
  <2> HIDE DEF count
  <2>5. q = [p EXCEPT !.menu = [p.menu EXCEPT !.selected = row]]
    BY <2>4 DEF Fields
  <2> HIDE DEF q, row
  <2>6. /\ DOMAIN q = Fields /\ q.menu = [p.menu EXCEPT !.selected = row]
        /\ q.buffer = p.buffer /\ q.history = p.history
        /\ q.index = p.index /\ q.draft = p.draft /\ q.surface = p.surface
        /\ q.filter = p.filter /\ q.selected = p.selected
    BY <2>4, <2>5 DEF Fields
  <2>7. /\ DOMAIN q.menu = {"selected", "prefix", "matches"} /\ q.menu.selected = row
        /\ q.menu.prefix = p.menu.prefix /\ q.menu.matches = p.menu.matches
    BY <2>4, <2>6
  <2>8. MenuFits(q)
    BY <2>2, <2>3, <2>6, <2>7 DEF Whole, MenuFits
  <2>9. PickerFits(q)
    BY <2>6 DEF Whole, PickerFits, Candidates
  <2>10. HistoryFits(q) /\ Moves(p, q, event)
    BY <1>1, <2>6, StaysMoves DEF Stays
  <2>11. Fits(q)
    BY <2>6, <2>8, <2>9, <2>10 DEF Whole
  <2> QED BY <2>11 DEF q
<1>5. \A next \in Submitted(taken) :
        Whole(next[1]) /\ Leaves(p, next[1])
  <2> DEFINE q == [p EXCEPT !.buffer = AtEnd(Chosen(p) \o <<" ">>)]
  <2>1. Half(q) /\ Stays(p, q)
    BY <1>1, BufferChanges
  <2>2. taken = [q EXCEPT !.menu = NoMenu]
    BY DEF Whole, Fields
  <2> HIDE DEF q, taken
  <2>3. Half(taken) /\ Stays(p, taken) /\ taken.menu = NoMenu
    BY <2>1, <2>2, MenuCloses, WholeHalf DEF Stays
  <2>4. \A next \in Submitted(taken) : Whole(next[1]) /\ Leaves(taken, next[1])
    BY <2>3, SubmittedFits
  <2> QED BY <2>3, <2>4 DEF Leaves, Stays
<1> HIDE DEF Fits, turned
<1>6. MenuKey(p, event) =
        CASE event = Key("esc") -> {<<closed, agent>>}
          [] event = Key("up") -> {<<turned(-1), agent>>}
          [] event = Key("down") -> {<<turned(1), agent>>}
          [] event = Key("tab") -> {<<Completed(p), agent>>}
          [] event = Key("enter") -> Submitted(taken)
  BY Zenon DEF MenuKey, With, turned
<1>7. event \in {Key("esc"), Key("up"), Key("down"), Key("tab"), Key("enter")}
  BY DEF MenuKeys
<1> HIDE DEF closed, taken, count
<1>8. \A next \in MenuKey(p, event) :
        \/ Fits(next[1])
        \/ event = Key("enter") /\ next \in Submitted(taken)
  <2>1. Fits(turned(-1)) /\ Fits(turned(1))
    BY <1>4
  <2> QED BY <1>2, <1>3, <1>6, <1>7, <2>1 DEF Key
<1>9. \A next \in MenuKey(p, event) : Fits(next[1])
  BY <1>1, <1>5, <1>8, LeavesMoves DEF Fits
<1> QED BY <1>9 DEF Fits

\* Another text moves as its menu is looked at again.
LEMMA RefreshedMoves ==
    ASSUME NEW p, NEW q, NEW event, Half(q), Moves(p, q, event)
    PROVE  Whole(Refreshed(q)) /\ Moves(p, Refreshed(q), event)
<1>1. Whole(Refreshed(q)) /\ Stays(q, Refreshed(q)) /\ Refreshed(q).buffer = q.buffer
  BY RefreshedFits
<1> QED BY <1>1 DEF Stays, Moves

\* The keys of the composer: whatever a key does, the menu is looked at after it.
LEMMA ComposerKeyFits ==
    ASSUME NEW p, Whole(p), NEW event
    PROVE  \A next \in ComposerKey(p, event) : Whole(next[1]) /\ Moves(p, next[1], event)
<1> DEFINE Fits(q) == Whole(q) /\ Moves(p, q, event)
           edited == [p EXCEPT !.buffer = Edited(p, event)]
<1>1. Half(p) /\ HistoryFits(p)
  BY WholeHalf DEF Whole
<1>2. \A q : Half(q) /\ Moves(p, q, event) => Fits(Refreshed(q))
  BY RefreshedMoves
<1>3. event = Key("enter") => \A next \in Submitted(p) : Fits(Refreshed(next[1]))
  <2>1. \A next \in Submitted(p) : Half(next[1]) /\ Leaves(p, next[1])
    BY <1>1, SubmittedFits
  <2> QED BY <1>1, <1>2, <2>1, LeavesMoves
<1>4. Fits(Refreshed(Completed(p)))
  BY <1>1, <1>2, CompletedFits, StaysMoves, WholeHalf
<1>5. \A q \in RowKeys(p, event) : Fits(Refreshed(q))
  <2>1. \A rows, by : Half(RowKey(p, rows, by)) /\ Moves(p, RowKey(p, rows, by), event)
    <3> TAKE rows, by
    <3>1. \A buffer : Half([p EXCEPT !.buffer = buffer])
                      /\ Moves(p, [p EXCEPT !.buffer = buffer], event)
      BY <1>1, BufferChanges, StaysMoves
    <3>2. /\ Half(Back(p)) /\ Moves(p, Back(p), event)
          /\ Half(Forward(p)) /\ Moves(p, Forward(p), event)
      BY <1>1, BackMoves, ForwardMoves
    <3>3. \/ RowKey(p, rows, by) = [p EXCEPT !.buffer = To(p.buffer, Vertical(p.buffer, rows, by))]
          \/ RowKey(p, rows, by) = Back(p) \/ RowKey(p, rows, by) = Forward(p)
      BY DEF RowKey
    <3> QED BY <3>1, <3>2, <3>3
  <2> QED BY <1>2, <2>1 DEF RowKeys
<1>6. Fits(Refreshed(edited))
  <2>1. Half(edited) /\ Moves(p, edited, event)
    BY <1>1, BufferChanges, StaysMoves
  <2> QED BY <1>2, <2>1
<1> HIDE DEF Fits
<1>7. \A next \in ComposerKey(p, event) :
        \/ event = Key("enter") /\ \E submitted \in Submitted(p) : next[1] = Refreshed(submitted[1])
        \/ next[1] = Refreshed(Completed(p))
        \/ \E q \in RowKeys(p, event) : next[1] = Refreshed(q)
        \/ next[1] = Refreshed(edited)
  BY DEF ComposerKey
<1>8. \A next \in ComposerKey(p, event) : Fits(next[1])
  BY <1>3, <1>4, <1>5, <1>6, <1>7
<1> QED BY <1>8 DEF Fits

\* handle_control_c, but for the exit.
LEMMA ControlCFits ==
    ASSUME NEW p, Whole(p)
    PROVE  \A next \in ControlC(p) : Whole(next[1]) /\ Stays(p, next[1])
<1> DEFINE quiet == [p EXCEPT !.menu = NoMenu]
           cleared == [quiet EXCEPT !.buffer = Empty]
<1>1. Whole(quiet) /\ Stays(p, quiet) /\ quiet.menu = NoMenu /\ Half(quiet)
  BY WholeHalf, MenuCloses
<1>2. \A next \in ControlC(p) : next[1] = quiet \/ next[1] = cleared
  BY DEF ControlC, With
<1> HIDE DEF quiet
<1>3. Half(cleared) /\ Stays(quiet, cleared) /\ cleared.menu = NoMenu
  BY <1>1, BufferChanges
<1>4. Whole(cleared) /\ Stays(p, cleared)
  BY <1>1, <1>3, ClosedFits DEF Stays
<1> QED BY <1>1, <1>2, <1>4

\* handle_terminal_event.
LEMMA HandledFits ==
    ASSUME NEW p, Whole(p), NEW event
    PROVE  \A next \in Handled(p, event) : Whole(next[1]) /\ Moves(p, next[1], event)
<1> DEFINE Fits(q) == Whole(q) /\ Moves(p, q, event)
<1>1. Half(p) /\ HistoryFits(p)
  BY WholeHalf DEF Whole
<1>2. \A q : Whole(q) /\ Stays(p, q) => Fits(q)
  BY <1>1, StaysMoves
<1>3. Fits(p)
  BY <1>2 DEF Stays
<1>4. Fits(On(p, "none")) /\ Fits(On(p, "detail"))
  BY <1>1, <1>2, OnFits DEF Surfaces
<1>5. CASE "paste" \in DOMAIN event
  <2> DEFINE inserted == [p EXCEPT !.buffer = Insert(p.buffer, event.paste)]
             filtered == [p EXCEPT !.filter = p.filter \o event.paste, !.selected = 1]
  <2>1. Fits(Refreshed(inserted))
    BY <1>1, BufferChanges, StaysMoves, RefreshedMoves
  <2>2. Fits(filtered)
    BY <1>2, FilterFits
  <2> HIDE DEF Fits
  <2>3. \A next \in Handled(p, event) :
          next[1] = Refreshed(inserted) \/ next[1] = filtered \/ next[1] = p
    BY <1>5 DEF Handled, With
  <2>4. \A next \in Handled(p, event) : Fits(next[1])
    BY <1>3, <2>1, <2>2, <2>3
  <2> QED BY <2>4 DEF Fits
<1>6. CASE "paste" \notin DOMAIN event
  <2>1. p.surface = "picker" => \A next \in PickerKey(p, event) : Fits(next[1])
    BY <1>2, PickerKeyFits
  <2>2. Shown(p) /\ event \in MenuKeys => \A next \in MenuKey(p, event) : Fits(next[1])
    BY MenuKeyFits
  <2>3. \A next \in ControlC(p) : Fits(next[1])
    BY <1>2, ControlCFits
  <2>4. \A next \in ComposerKey(p, event) : Fits(next[1])
    BY ComposerKeyFits
  <2> HIDE DEF Fits
  <2>5. p.surface \in {"none", "help", "picker", "detail"}
    BY DEF Whole, PickerFits, Surfaces
  <2>6. \A next \in Handled(p, event) :
          \/ p.surface = "picker" /\ next \in PickerKey(p, event)
          \/ Shown(p) /\ event \in MenuKeys /\ next \in MenuKey(p, event)
          \/ next \in ControlC(p) \/ next \in ComposerKey(p, event)
          \/ next[1] \in {p, On(p, "none"), On(p, "detail")}
    BY <1>6, <2>5 DEF Handled, With
  <2>7. \A next \in Handled(p, event) : Fits(next[1])
    BY <1>3, <1>4, <2>1, <2>2, <2>3, <2>4, <2>6
  <2> QED BY <2>7 DEF Fits
<1> QED BY <1>5, <1>6

-----------------------------------------------------------------------------
(* The steps. *)

\* The prompts fit from the first on.
PromptInv == Whole(prompt)

LEMMA InitPrompt == Init => PromptInv
<1> SUFFICES ASSUME Init PROVE Whole(prompt)
  BY DEF PromptInv
<1>1. PICK history \in Histories :
        prompt = [buffer |-> Empty, history |-> history, index |-> 0, draft |-> NoEvent,
                  menu |-> NoMenu, surface |-> "none", filter |-> <<>>, selected |-> 1]
  BY DEF Init
<1>2. DOMAIN prompt = Fields /\ prompt.history = history /\ prompt.index = 0
      /\ prompt.menu = NoMenu /\ prompt.surface = "none"
  BY <1>1 DEF Fields
<1>3. history \in Seq(Range(history)) /\ Len(history) \in Nat
  <2>1. history \in Seq(Range(history))
    BY TerminalInputAssumption
  <2> QED BY <2>1
<1>4. HistoryFits(prompt)
  BY <1>2, <1>3 DEF HistoryFits
<1>5. PickerFits(prompt) /\ MenuFits(prompt)
  BY <1>2 DEF PickerFits, MenuFits, Surfaces, Shown, NoMenu
<1> QED BY <1>2, <1>4, <1>5 DEF Whole

\* Every step leaves a prompt that fits, and moves in the history as it may.
LEMMA StepPrompt ==
    ASSUME PromptInv, [Next]_vars
    PROVE  PromptInv' /\ Moves(prompt, prompt', Decoded.event)
<1> DEFINE Fits(q) == Whole(q) /\ Moves(prompt, q, Decoded.event)
<1>1. Whole(prompt) /\ Half(prompt) /\ HistoryFits(prompt)
  BY WholeHalf DEF PromptInv, Whole
<1>2. \A q : Whole(q) /\ Stays(prompt, q) => Fits(q)
  BY <1>1, StaysMoves
<1>3. Fits(prompt)
  BY <1>1, <1>2 DEF Stays
<1>4. Fits([prompt EXCEPT !.menu = NoMenu])
  BY <1>1, <1>2, MenuCloses
<1>5. \A buffer : Fits([prompt EXCEPT !.menu = NoMenu, !.buffer = buffer])
  <2> TAKE buffer
  <2> DEFINE quiet == [prompt EXCEPT !.menu = NoMenu]
             q == [quiet EXCEPT !.buffer = buffer]
  <2>1. Half(quiet) /\ Stays(prompt, quiet) /\ quiet.menu = NoMenu
    BY <1>1, MenuCloses, WholeHalf
  <2>2. q = [prompt EXCEPT !.menu = NoMenu, !.buffer = buffer]
    OBVIOUS
  <2> HIDE DEF quiet
  <2>3. Half(q) /\ Stays(quiet, q) /\ q.menu = NoMenu
    BY <2>1, BufferChanges
  <2> HIDE DEF q
  <2>4. Whole(q) /\ Stays(prompt, q)
    BY <2>1, <2>3, ClosedFits DEF Stays
  <2>5. Fits(q)
    BY <1>2, <2>4
  <2> QED BY <2>2, <2>5
<1> SUFFICES Fits(prompt')
  BY DEF PromptInv
<1> HIDE DEF Fits
<1>6. CASE Type
  BY <1>3, <1>6 DEF Type
<1>7. CASE Arrive
  BY <1>3, <1>7 DEF Arrive
<1>8. CASE Pass
  BY <1>3, <1>8 DEF Pass
<1>9. CASE Poll
  <2>1. \A next \in Handled(prompt, Decoded.event) : Fits(next[1])
    BY <1>1, HandledFits DEF Fits
  <2>2. prompt' = prompt \/ \E next \in Handled(prompt, Decoded.event) : prompt' = next[1]
    BY <1>9 DEF Poll
  <2> QED BY <1>3, <2>1, <2>2
<1>10. CASE OpenEditor
  <2>1. \/ prompt' = [prompt EXCEPT !.menu = NoMenu]
        \/ \E text \in EditorTexts :
             prompt' = [prompt EXCEPT !.menu = NoMenu, !.buffer = AtEnd(text)]
    BY <1>10 DEF OpenEditor
  <2> QED BY <1>4, <1>5, <2>1
<1>11. CASE RunEnds
  <2>1. CASE prompt' = prompt
    BY <1>3, <2>1
  <2>2. CASE /\ prompt.buffer.text = <<>>
             /\ prompt' = [prompt EXCEPT !.buffer = AtEnd(agent.submitted)]
    <3> DEFINE q == [prompt EXCEPT !.buffer = AtEnd(agent.submitted)]
    <3>1. ~Shown(prompt)
      <4>1. CommandsOf(prompt.buffer.text) = <<>>
        BY <2>2 DEF CommandsOf
      <4> QED BY <1>1, <4>1 DEF Whole, MenuFits
    <3>2. Half(q) /\ Stays(prompt, q) /\ q.menu = NoMenu
      BY <1>1, <3>1, BufferChanges DEF Shown
    <3>3. Fits(q)
      BY <1>2, <3>2, ClosedFits
    <3> QED BY <2>2, <3>3
  <2> QED BY <1>11, <2>1, <2>2 DEF RunEnds
<1>12. CASE UNCHANGED vars
  BY <1>3, <1>12 DEF vars
<1> QED BY <1>6, <1>7, <1>8, <1>9, <1>10, <1>11, <1>12 DEF Next

LEMMA PromptInvHolds == Spec => []PromptInv
<1>1. PromptInv /\ [Next]_vars => PromptInv'
  BY StepPrompt
<1> QED BY InitPrompt, <1>1, PTL DEF Spec

\* A menu that is open belongs to the text beside it, and the row selected in
\* it, as in a picker with candidates, is one of those shown: after any keys,
\* pastes, editors and runs that give their prompt back.
THEOREM MenusCurrent == Spec => []MenusAreCurrent
<1>1. PromptInv => MenusAreCurrent
  BY DEF PromptInv, Whole, MenuFits, PickerFits, MenusAreCurrent
<1> QED BY <1>1, PromptInvHolds, PTL

\* The draft that was left for the history is kept until it comes back after
\* the newest prompt, or another prompt is submitted.
THEOREM DraftReturns == Spec => DraftComesBack
<1> DEFINE Step ==
      /\ prompt.index = 0 /\ prompt'.index # 0 => prompt'.draft = [text |-> prompt.buffer.text]
      /\ prompt.index # 0 /\ prompt'.index # 0 => prompt'.draft = prompt.draft
      /\ prompt.index # 0 /\ prompt'.index = 0 /\ prompt'.history = prompt.history =>
           \/ prompt'.buffer = AtEnd(prompt.draft.text)
           \/ prompt'.draft = NoEvent /\ Decoded.event = Key("enter")
<1>1. PromptInv /\ [Next]_vars => [Step]_vars
  BY StepPrompt DEF Moves
<1>2. Spec => [][Step]_vars
  BY <1>1, PromptInvHolds, PTL DEF Spec
<1> QED BY <1>2 DEF DraftComesBack

-----------------------------------------------------------------------------
(* Bytes. *)

\* What the keys of a keyboard, the sequences and the marks of a paste consist of.
Thirds == {"A", "B", "C", "D", "H", "F", "1", "4", "3", "5", "6", "Z"}
Byte == {"esc", "[", "O", "~", "2", "0"} \cup Thirds
          \cup UNION {Range(key.bytes) : key \in UNION Keyboards}

\* Some bytes begin with others.
Begins(bytes, part) ==
    Len(part) <= Len(bytes) /\ \A k \in 1..Len(part) : bytes[k] = part[k]

LEMMA PrefixIs ==
    ASSUME NEW part \in Seq(Byte), NEW bytes \in Seq(Byte)
    PROVE  /\ IsPrefix(part, bytes) <=> Begins(bytes, part)
           /\ IsStrictPrefix(part, bytes) <=> Begins(bytes, part) /\ Len(part) < Len(bytes)
<1>1. Len(part) \in Nat /\ Len(bytes) \in Nat
  OBVIOUS
<1>2. SubSeq(part, 1, Len(part)) = part
  BY SubSeqFull
<1>3. Len(part) <= Len(bytes) =>
        /\ SubSeq(bytes, 1, Len(part)) \in Seq(Byte)
        /\ Len(SubSeq(bytes, 1, Len(part))) = Len(part)
        /\ \A k \in 1..Len(part) : SubSeq(bytes, 1, Len(part))[k] = bytes[k]
  BY <1>1
<1>4. Len(part) <= Len(bytes) =>
        (part = SubSeq(bytes, 1, Len(part)) <=> \A k \in 1..Len(part) : bytes[k] = part[k])
  BY <1>1, <1>3, SeqEqual
<1>5. IsPrefix(part, bytes) <=> Begins(bytes, part)
  BY <1>2, <1>4 DEF IsPrefix, Begins
<1>6. Begins(bytes, part) => (part # bytes <=> Len(part) < Len(bytes))
  BY <1>1, <1>4, SubSeqFull DEF Begins
<1> QED BY <1>5, <1>6 DEF IsStrictPrefix

\* The sequences: what their second and third byte say.
Digits == {"1", "4", "3", "5", "6"}
Code(third) ==
    CASE third = "A" -> "up" [] third = "B" -> "down" [] third = "C" -> "right"
      [] third = "D" -> "left" [] third \in {"H", "1"} -> "home" [] third \in {"F", "4"} -> "end"
      [] third = "3" -> "delete" [] third = "5" -> "pageUp" [] third = "6" -> "pageDown"
      [] OTHER -> "tab"
Named(second, third) ==
    [bytes |-> IF third \in Digits THEN <<"esc", second, third, "~">>
               ELSE <<"esc", second, third>>,
     event |-> Modified(Code(third), IF third = "Z" THEN "shift" ELSE "none")]

LEMMA SequencesAre ==
    ASSUME NEW s \in Sequences
    PROVE  \E second \in {"[", "O"}, third \in Thirds : s = Named(second, third)
<1> USE DEF Named, Code, Thirds, Digits, Modified, Key
<1>1. CASE s \in Final("A", "up") \cup Final("B", "down") \cup Final("C", "right")
                  \cup Final("D", "left") \cup Final("H", "home") \cup Final("F", "end")
  <2>1. \E third \in {"A", "B", "C", "D", "H", "F"} : s = Named("[", third)
    BY <1>1 DEF Final
  <2> HIDE DEF Named, Code, Modified, Key
  <2> QED BY <2>1
<1>2. CASE s \in Numbered("1", "home") \cup Numbered("4", "end") \cup Numbered("3", "delete")
                  \cup Numbered("5", "pageUp") \cup Numbered("6", "pageDown")
  <2>1. \E third \in Digits : s = Named("[", third)
    BY <1>2 DEF Numbered
  <2> HIDE DEF Named, Code, Modified, Key
  <2> QED BY <2>1
<1>3. CASE s \in Application("A", "up") \cup Application("B", "down")
                  \cup Application("C", "right") \cup Application("D", "left")
  <2>1. \E third \in {"A", "B", "C", "D"} : s = Named("O", third)
    BY <1>3 DEF Application
  <2> HIDE DEF Named, Code, Modified, Key
  <2> QED BY <2>1
<1>4. CASE s = [bytes |-> <<"esc", "[", "Z">>, event |-> Modified("tab", "shift")]
  <2>1. s = Named("[", "Z")
    BY <1>4
  <2> QED BY <2>1
<1> QED BY <1>1, <1>2, <1>3, <1>4 DEF Sequences

LEMMA SequenceBytes ==
    ASSUME NEW s \in Sequences
    PROVE  /\ s.bytes \in Seq(Byte) /\ Len(s.bytes) \in {3, 4} /\ s.bytes[1] = "esc"
           /\ s.bytes[2] \in {"[", "O"} /\ s.bytes[3] \in Thirds
           /\ Len(s.bytes) = 4 <=> s.bytes[3] \in Digits
           /\ Len(s.bytes) = 4 => s.bytes[4] = "~"
           /\ s = Named(s.bytes[2], s.bytes[3])
<1>1. PICK second \in {"[", "O"}, third \in Thirds : s = Named(second, third)
  BY SequencesAre
<1>2. second \in Byte /\ third \in Byte /\ "esc" \in Byte /\ "~" \in Byte
  BY DEF Byte
<1>3. CASE third \in Digits
  <2>1. s.bytes = <<"esc", second, third, "~">>
    BY <1>1, <1>3 DEF Named
  <2>2. s.bytes \in Seq(Byte)
    BY <1>2, <2>1
  <2>3. /\ Len(s.bytes) = 4 /\ s.bytes[1] = "esc" /\ s.bytes[2] = second
        /\ s.bytes[3] = third /\ s.bytes[4] = "~"
    BY <2>1
  <2> QED BY <1>1, <1>3, <2>2, <2>3
<1>4. CASE third \notin Digits
  <2>1. s.bytes = <<"esc", second, third>>
    BY <1>1, <1>4 DEF Named
  <2>2. s.bytes \in Seq(Byte)
    BY <1>2, <2>1
  <2>3. /\ Len(s.bytes) = 3 /\ s.bytes[1] = "esc" /\ s.bytes[2] = second
        /\ s.bytes[3] = third
    BY <2>1
  <2> QED BY <1>1, <1>4, <2>2, <2>3
<1> QED BY <1>3, <1>4

\* No sequence is the beginning of another.
LEMMA SequencesApart ==
    ASSUME NEW s \in Sequences, NEW t \in Sequences, NEW bytes,
           Begins(bytes, s.bytes), Begins(bytes, t.bytes)
    PROVE  s = t
<1>1. s.bytes[2] = bytes[2] /\ s.bytes[3] = bytes[3]
  BY SequenceBytes DEF Begins
<1>2. t.bytes[2] = bytes[2] /\ t.bytes[3] = bytes[3]
  BY SequenceBytes DEF Begins
<1> QED BY <1>1, <1>2, SequenceBytes

LEMMA MarkBytes ==
    /\ PasteStart \in Seq(Byte) /\ Len(PasteStart) = 6
    /\ PasteStart[1] = "esc" /\ PasteStart[2] = "[" /\ PasteStart[3] = "2"
    /\ PasteEnd \in Seq(Byte) /\ Len(PasteEnd) = 6 /\ PasteEnd[1] = "esc"
<1> "esc" \in Byte /\ "[" \in Byte /\ "2" \in Byte /\ "0" \in Byte /\ "1" \in Byte /\ "~" \in Byte
  BY DEF Byte, Thirds
<1>1. PasteStart \in Seq(Byte)
  BY DEF PasteStart
<1>2. PasteEnd \in Seq(Byte)
  BY DEF PasteEnd
<1>3. /\ Len(PasteStart) = 6
      /\ PasteStart[1] = "esc" /\ PasteStart[2] = "[" /\ PasteStart[3] = "2"
  BY DEF PasteStart
<1>4. Len(PasteEnd) = 6 /\ PasteEnd[1] = "esc"
  BY DEF PasteEnd
<1> QED BY <1>1, <1>2, <1>3, <1>4

-----------------------------------------------------------------------------
(* The decoder: a key that arrived whole, and one that did not. *)

IsDecoder(from) ==
    /\ DOMAIN from = {"bytes", "paste", "deadline"} /\ from.bytes \in Seq(Byte)
    /\ from.paste = FALSE /\ from.deadline \in {"none", "ahead", "past"}

\* What the decoder is after some bytes were taken.
Took(from, count, after) ==
    /\ IsDecoder(after) /\ after.deadline = "none"
    /\ after.bytes = SubSeq(from.bytes, count + 1, Len(from.bytes))

LEMMA TookRest ==
    ASSUME NEW from, IsDecoder(from), NEW count \in 0..Len(from.bytes)
    PROVE  /\ IsDecoder(Rest(from, count)) /\ Rest(from, count).deadline = from.deadline
           /\ Rest(from, count).bytes = SubSeq(from.bytes, count + 1, Len(from.bytes))
           /\ Took(from, count, Cleared(Rest(from, count)))
           /\ Took(from, count, Rest(Cleared(from), count))
           /\ IsDecoder(Cleared(from)) /\ Cleared(from).bytes = from.bytes
           /\ Cleared(from).deadline = "none"
<1>1. SubSeq(from.bytes, count + 1, Len(from.bytes)) \in Seq(Byte)
  BY DEF IsDecoder
<1> QED BY <1>1 DEF IsDecoder, Rest, Cleared, Took

\* A byte that is no escape.
LEMMA OtherDecodes ==
    ASSUME NEW from, IsDecoder(from), from.bytes # <<>>, from.bytes[1] # "esc"
    PROVE  Decode(from) = DecodeOther(Cleared(from))
<1>1. Head(from.bytes) # "esc"
  BY DEF IsDecoder
<1> QED BY <1>1 DEF Decode, IsDecoder

LEMMA EscapeDecodes ==
    ASSUME NEW from, IsDecoder(from), from.bytes # <<>>, from.bytes[1] = "esc"
    PROVE  Decode(from) = DecodeEscape(from)
<1>1. Head(from.bytes) = "esc"
  BY DEF IsDecoder
<1> QED BY <1>1 DEF Decode, IsDecoder

LEMMA ByteDecodes ==
    ASSUME NEW from, IsDecoder(from), NEW key, IsByte(key), Begins(from.bytes, key.bytes)
    PROVE  Decode(from).event = key.event /\ Took(from, 1, Decode(from).after)
<1> DEFINE byte == key.bytes[1]
           clear == Cleared(from)
<1>1. /\ from.bytes \in Seq(Byte) /\ Len(from.bytes) >= 1
      /\ from.bytes[1] = byte /\ byte # "esc" /\ byte # "lead"
  BY DEF IsByte, Begins, IsDecoder
<1>2. Decode(from) = DecodeOther(clear)
  BY <1>1, OtherDecodes
<1>3. Head(clear.bytes) = byte /\ Took(from, 1, Rest(clear, 1))
  BY <1>1, TookRest
<1>4. key.event = CASE byte \in DOMAIN Plain -> Key(Plain[byte])
                    [] byte \in DOMAIN ControlKeys -> Modified(ControlKeys[byte], "control")
                    [] OTHER -> Key(byte)
  BY DEF IsByte
<1> HIDE DEF byte, clear
<1>5. DecodeOther(clear) = Gives(key.event, Rest(clear, 1))
  <2>1. CASE byte \in DOMAIN Plain
    <3>1. byte \notin DOMAIN ControlKeys
      BY <2>1 DEF Plain, ControlKeys
    <3>2. key.event = Key(Plain[byte])
      BY <1>4, <2>1, <3>1
    <3> QED BY <1>1, <1>3, <2>1, <3>1, <3>2 DEF DecodeOther
  <2>2. CASE byte \notin DOMAIN Plain /\ byte \in DOMAIN ControlKeys
    <3>1. key.event = Modified(ControlKeys[byte], "control")
      BY <1>4, <2>2
    <3> QED BY <1>1, <1>3, <2>2, <3>1 DEF DecodeOther
  <2>3. CASE byte \notin DOMAIN Plain /\ byte \notin DOMAIN ControlKeys
    BY <1>1, <1>3, <1>4, <2>3 DEF DecodeOther
  <2> QED BY <2>1, <2>2, <2>3
<1> QED BY <1>2, <1>3, <1>5 DEF Gives

LEMMA WideDecodes ==
    ASSUME NEW from, IsDecoder(from), NEW key, IsWide(key), Begins(from.bytes, key.bytes)
    PROVE  Decode(from).event = key.event /\ Took(from, 2, Decode(from).after)
<1> DEFINE clear == Cleared(from)
<1>1. /\ from.bytes \in Seq(Byte) /\ Len(from.bytes) >= 2
      /\ from.bytes[1] = "lead" /\ from.bytes[2] = key.bytes[2] /\ key.event = Key(key.bytes[2])
  BY DEF IsWide, Begins, IsDecoder
<1>2. Decode(from) = DecodeOther(clear)
  BY <1>1, OtherDecodes
<1>3. /\ Head(clear.bytes) = "lead" /\ Len(clear.bytes) > 1 /\ Len(clear.bytes) # 1
      /\ clear.bytes[2] = key.bytes[2] /\ Took(from, 2, Rest(clear, 2))
  BY <1>1, TookRest
<1>4. "lead" \notin DOMAIN Plain /\ "lead" \notin DOMAIN ControlKeys
  BY DEF Plain, ControlKeys
<1> HIDE DEF clear
<1>5. DecodeOther(clear) = Gives(key.event, Rest(clear, 2))
  BY <1>1, <1>3, <1>4 DEF DecodeOther
<1> QED BY <1>2, <1>3, <1>5 DEF Gives

\* An escape with more bytes that begin no paste.
LEMMA NoPasteDecodes ==
    ASSUME NEW from, IsDecoder(from), Len(from.bytes) > 1, from.bytes[1] = "esc",
           ~Begins(from.bytes, PasteStart)
    PROVE  LET matches == {sequence \in Sequences : Begins(from.bytes, sequence.bytes)}
           IN Decode(from) =
                IF matches = {} THEN NoSequence(from)
                ELSE LET sequence == CHOOSE s \in matches : TRUE
                     IN Gives(sequence.event, Cleared(Rest(from, Len(sequence.bytes))))
<1>1. from.bytes \in Seq(Byte) /\ from.bytes # <<>> /\ Len(from.bytes) # 1
  <2>1. from.bytes \in Seq(Byte)
    BY DEF IsDecoder
  <2>2. Len(from.bytes) \in Nat
    BY <2>1
  <2>3. \A n \in Nat : n > 1 => n # 0 /\ n # 1
    OBVIOUS
  <2>4. Len(from.bytes) # 0 /\ Len(from.bytes) # 1
    BY <2>2, <2>3
  <2> QED BY <2>1, <2>4, EmptySeq
<1>2. Decode(from) = DecodeEscape(from)
  BY <1>1, EscapeDecodes
<1>3. ~IsPrefix(PasteStart, from.bytes)
  BY <1>1, MarkBytes, PrefixIs
<1>4. \A sequence \in Sequences :
        IsPrefix(sequence.bytes, from.bytes) <=> Begins(from.bytes, sequence.bytes)
  BY <1>1, SequenceBytes, PrefixIs
<1>5. {sequence \in Sequences : IsPrefix(sequence.bytes, from.bytes)}
        = {sequence \in Sequences : Begins(from.bytes, sequence.bytes)}
  BY <1>4
<1> DEFINE Found(set) == CHOOSE s \in set : TRUE
           Taken(sequence) == Gives(sequence.event, Cleared(Rest(from, Len(sequence.bytes))))
           prefixes == {sequence \in Sequences : IsPrefix(sequence.bytes, from.bytes)}
           matches == {sequence \in Sequences : Begins(from.bytes, sequence.bytes)}
<1>6. /\ prefixes = {} => DecodeEscape(from) = NoSequence(from)
      /\ prefixes # {} => DecodeEscape(from) = Taken(Found(prefixes))
  BY <1>1, <1>3 DEF DecodeEscape
<1> HIDE DEF Found, Taken, prefixes, matches
<1>7. prefixes = matches
  BY <1>5 DEF prefixes, matches
<1>8. Decode(from) = IF matches = {} THEN NoSequence(from) ELSE Taken(Found(matches))
  BY <1>2, <1>6, <1>7
<1> QED BY <1>8 DEF matches, Taken, Found

LEMMA SequenceDecodes ==
    ASSUME NEW from, IsDecoder(from), NEW key, IsSequence(key), Begins(from.bytes, key.bytes)
    PROVE  Decode(from).event = key.event /\ Took(from, Len(key.bytes), Decode(from).after)
<1> DEFINE s == [bytes |-> key.bytes, event |-> key.event]
           matches == {sequence \in Sequences : Begins(from.bytes, sequence.bytes)}
<1>1. s \in Sequences /\ s.bytes = key.bytes /\ s.event = key.event
  BY DEF IsSequence
<1> HIDE DEF s
<1>2. /\ Len(key.bytes) \in {3, 4} /\ key.bytes[1] = "esc" /\ key.bytes[3] \in Thirds
  BY <1>1, SequenceBytes
<1>3. /\ from.bytes \in Seq(Byte) /\ Len(from.bytes) > 1 /\ Len(key.bytes) \in 0..Len(from.bytes)
      /\ from.bytes[1] = "esc" /\ from.bytes[3] = key.bytes[3]
  BY <1>2 DEF Begins, IsDecoder
<1>4. ~Begins(from.bytes, PasteStart)
  BY <1>2, <1>3, MarkBytes DEF Begins, Thirds
<1>5. matches = {s}
  <2>1. s \in matches
    BY <1>1
  <2>2. \A t \in matches : t = s
    BY <1>1, SequencesApart
  <2> QED BY <2>1, <2>2
<1>6. Decode(from) = Gives(s.event, Cleared(Rest(from, Len(s.bytes))))
  <2>1. (CHOOSE t \in matches : TRUE) = s /\ matches # {}
    BY <1>5
  <2> QED BY <1>3, <1>4, <2>1, NoPasteDecodes
<1> QED BY <1>1, <1>3, <1>6, TookRest DEF Gives

LEMMA AltDecodes ==
    ASSUME NEW from, IsDecoder(from), from.deadline = "none",
           NEW key, IsAlt(key), Begins(from.bytes, key.bytes)
    PROVE  Decode(from).event = key.event /\ Took(from, 2, Decode(from).after)
<1>1. /\ from.bytes \in Seq(Byte) /\ Len(from.bytes) > 1 /\ from.bytes[1] = "esc"
      /\ from.bytes[2] = key.bytes[2] /\ key.event = Modified(from.bytes[2], "alt")
      /\ Printable(from.bytes[2]) /\ from.bytes[2] \notin {"[", "O"}
  BY DEF IsAlt, Begins, IsDecoder, Printable
<1>2. ~Begins(from.bytes, PasteStart)
  BY <1>1, MarkBytes DEF Begins
<1>3. {sequence \in Sequences : Begins(from.bytes, sequence.bytes)} = {}
  BY <1>1, SequenceBytes DEF Begins
<1>4. Decode(from) = NoSequence(from)
  BY <1>1, <1>2, <1>3, NoPasteDecodes
<1>5. ~IsUnfinished(from.bytes)
  <2>1. ~IsStrictPrefix(from.bytes, PasteStart)
    <3>1. ~Begins(PasteStart, from.bytes)
      BY <1>1, MarkBytes DEF Begins
    <3> QED BY <1>1, <3>1, MarkBytes, PrefixIs
  <2>2. ASSUME NEW sequence \in Sequences PROVE ~IsStrictPrefix(from.bytes, sequence.bytes)
    <3>1. sequence.bytes \in Seq(Byte) /\ sequence.bytes[2] \in {"[", "O"}
      BY SequenceBytes
    <3>2. ~Begins(sequence.bytes, from.bytes)
      BY <1>1, <3>1 DEF Begins
    <3> QED BY <1>1, <3>1, <3>2, PrefixIs
  <2> QED BY <2>1, <2>2 DEF IsUnfinished
<1>6. NoSequence(from) = Gives(key.event, Rest(from, 2))
  BY <1>1, <1>5 DEF NoSequence
<1>7. Took(from, 2, Rest(from, 2))
  BY <1>1, TookRest DEF Took
<1> QED BY <1>4, <1>6, <1>7 DEF Gives

\* Escape alone: after its deadline it is the key, before it may be a sequence.
LEMMA BareDecodes ==
    ASSUME NEW from, IsDecoder(from), from.bytes = <<"esc">>
    PROVE  /\ from.deadline = "past" =>
                Decode(from).event = Key("esc") /\ Took(from, 1, Decode(from).after)
           /\ from.deadline # "past" =>
                /\ Decode(from).event = NoEvent /\ IsDecoder(Decode(from).after)
                /\ Decode(from).after.bytes = from.bytes
                /\ Decode(from).after.deadline = "ahead"
<1>1. /\ from.bytes # <<>> /\ from.bytes[1] = "esc" /\ Len(from.bytes) = 1
  OBVIOUS
<1>2. Decode(from) = DecodeEscape(from)
  BY <1>1, EscapeDecodes
<1> DEFINE prefixes == {sequence \in Sequences : IsPrefix(sequence.bytes, from.bytes)}
<1>3. prefixes = {} /\ ~(Len(from.bytes) > 1)
  <2>1. ASSUME NEW sequence \in Sequences PROVE ~IsPrefix(sequence.bytes, from.bytes)
    <3>1. Len(sequence.bytes) > 1
      BY SequenceBytes
    <3> QED BY <1>1, <3>1 DEF IsPrefix
  <2> QED BY <1>1, <2>1
<1>4. DecodeEscape(from) =
        IF from.deadline = "past" THEN Gives(Key("esc"), Cleared(Rest(from, 1))) ELSE Waits(from)
  BY <1>1, <1>3 DEF DecodeEscape
<1>5. Took(from, 1, Cleared(Rest(from, 1)))
  <2>1. 1 \in 0..Len(from.bytes)
    BY <1>1
  <2> QED BY <2>1, TookRest
<1>6. from.deadline # "past" =>
        /\ Waits(from).event = NoEvent /\ IsDecoder(Waits(from).after)
        /\ Waits(from).after.bytes = from.bytes /\ Waits(from).after.deadline = "ahead"
  BY DEF Waits, Gives, IsDecoder
<1> QED BY <1>2, <1>4, <1>5, <1>6 DEF Gives

\* A sequence of which a part arrived is waited for.
LEMMA PartDecodes ==
    ASSUME NEW from, IsDecoder(from), from.deadline # "past", from.bytes # <<>>,
           NEW key, IsSequence(key), Begins(key.bytes, from.bytes),
           Len(from.bytes) < Len(key.bytes)
    PROVE  /\ Decode(from).event = NoEvent /\ IsDecoder(Decode(from).after)
           /\ Decode(from).after.bytes = from.bytes /\ Decode(from).after.deadline = "ahead"
<1> DEFINE s == [bytes |-> key.bytes, event |-> key.event]
<1>1. s \in Sequences /\ s.bytes = key.bytes
  BY DEF IsSequence
<1> HIDE DEF s
<1>2. /\ key.bytes \in Seq(Byte) /\ Len(key.bytes) \in {3, 4} /\ key.bytes[1] = "esc"
      /\ key.bytes[3] \in Thirds /\ (Len(key.bytes) = 4 <=> key.bytes[3] \in Digits)
  BY <1>1, SequenceBytes
<1>3. /\ from.bytes \in Seq(Byte) /\ Len(from.bytes) \in 1..3 /\ from.bytes[1] = "esc"
  <2>1. from.bytes \in Seq(Byte) /\ Len(from.bytes) # 0
    BY EmptySeq DEF IsDecoder
  <2>2. Len(from.bytes) \in Nat
    BY <2>1
  <2>3. \A m, n \in Nat : m < n /\ n \in {3, 4} /\ m # 0 => m \in 1..3
    OBVIOUS
  <2>4. Len(from.bytes) \in 1..3
    BY <1>2, <2>1, <2>2, <2>3
  <2> QED BY <1>2, <2>1, <2>4 DEF Begins
<1>4. CASE Len(from.bytes) = 1
  <2>1. from.bytes = <<"esc">>
    BY <1>3, <1>4
  <2> QED BY <2>1, BareDecodes
<1>5. CASE Len(from.bytes) > 1
  <2>1. ~Begins(from.bytes, PasteStart)
    BY <1>3, MarkBytes DEF Begins
  <2>2. {sequence \in Sequences : Begins(from.bytes, sequence.bytes)} = {}
    <3> SUFFICES ASSUME NEW t \in Sequences, Begins(from.bytes, t.bytes) PROVE FALSE
      OBVIOUS
    <3>1. Len(t.bytes) = 3 /\ Len(from.bytes) = 3 /\ t.bytes[3] \notin Digits
      <4>1. /\ Len(t.bytes) \in {3, 4} /\ (Len(t.bytes) = 4 <=> t.bytes[3] \in Digits)
            /\ Len(t.bytes) <= Len(from.bytes)
        BY SequenceBytes DEF Begins
      <4>2. \A m, n : m \in {3, 4} /\ n \in 1..3 /\ m <= n => m = 3 /\ n = 3 /\ m # 4
        OBVIOUS
      <4>3. Len(t.bytes) = 3 /\ Len(from.bytes) = 3 /\ Len(t.bytes) # 4
        BY <1>3, <4>1, <4>2
      <4> QED BY <4>1, <4>3
    <3>2. t.bytes[3] = from.bytes[3] /\ from.bytes[3] = key.bytes[3]
      BY <3>1 DEF Begins
    <3>3. Len(key.bytes) = 4
      <4>1. \A m, n : m = 3 /\ m < n /\ n \in {3, 4} => n = 4
        OBVIOUS
      <4> QED BY <1>2, <3>1, <4>1
    <3>4. key.bytes[3] \in Digits
      BY <1>2, <3>3
    <3> QED BY <3>1, <3>2, <3>4
  <2>3. Decode(from) = NoSequence(from)
    BY <1>3, <1>5, <2>1, <2>2, NoPasteDecodes
  <2>4. IsUnfinished(from.bytes)
    <3>1. IsStrictPrefix(from.bytes, s.bytes)
      BY <1>1, <1>2, <1>3, PrefixIs
    <3> QED BY <1>1, <3>1 DEF IsUnfinished
  <2>5. NoSequence(from) = Waits(from)
    BY <2>4 DEF NoSequence
  <2>6. /\ Waits(from).event = NoEvent /\ IsDecoder(Waits(from).after)
        /\ Waits(from).after.bytes = from.bytes /\ Waits(from).after.deadline = "ahead"
    BY DEF Waits, Gives, IsDecoder
  <2> QED BY <2>3, <2>5, <2>6
<1>6. Len(from.bytes) = 1 \/ Len(from.bytes) > 1
  <2>1. \A m \in 1..3 : m = 1 \/ m > 1
    OBVIOUS
  <2> QED BY <1>3, <2>1, Zenon
<1> QED BY <1>4, <1>5, <1>6

\* The first byte of a character is waited for, and nothing gives nothing.
LEMMA LeadDecodes ==
    ASSUME NEW from, IsDecoder(from), from.bytes = <<"lead">>
    PROVE  /\ Decode(from).event = NoEvent /\ IsDecoder(Decode(from).after)
           /\ Decode(from).after.bytes = from.bytes /\ Decode(from).after.deadline = "none"
<1>1. from.bytes # <<>> /\ from.bytes[1] = "lead" /\ Len(from.bytes) = 1
  OBVIOUS
<1>2. Decode(from) = DecodeOther(Cleared(from))
  BY <1>1, OtherDecodes
<1>3. /\ IsDecoder(Cleared(from)) /\ Cleared(from).bytes = from.bytes
      /\ Cleared(from).deadline = "none"
  BY <1>1, TookRest
<1>4. "lead" \notin DOMAIN Plain /\ "lead" \notin DOMAIN ControlKeys
  BY DEF Plain, ControlKeys
<1>5. Head(Cleared(from).bytes) = "lead"
  BY <1>3
<1>6. DecodeOther(Cleared(from)) = Gives(NoEvent, Cleared(from))
  BY <1>1, <1>3, <1>4, <1>5 DEF DecodeOther
<1> QED BY <1>2, <1>3, <1>6 DEF Gives

LEMMA NothingDecodes ==
    ASSUME NEW from, IsDecoder(from), from.bytes = <<>>
    PROVE  Decode(from) = Gives(NoEvent, from)
BY DEF Decode, IsDecoder

\* A paste ends at the first end mark, before which its text has no escape.
LEMMA PasteDecodes ==
    ASSUME NEW from, IsDecoder(from), NEW key, key.bytes \in Seq(Byte),
           IsPaste(key), Begins(from.bytes, key.bytes)
    PROVE  Decode(from).event = key.event /\ Took(from, Len(key.bytes), Decode(from).after)
<1> DEFINE size == Len(key.bytes) - 12
           text == SubSeq(key.bytes, 7, 6 + size)
           inner == [Rest(from, 6) EXCEPT !.paste = TRUE]
           Ends(k) == IsPrefix(PasteEnd, SubSeq(inner.bytes, k, Len(inner.bytes)))
           ends == {k \in 1..Len(inner.bytes) : Ends(k)}
           after == [Rest(inner, Min(ends) - 1 + Len(PasteEnd)) EXCEPT !.paste = FALSE]
<1>1. /\ size \in Nat /\ key.bytes = PasteStart \o text \o PasteEnd
      /\ (\A k \in DOMAIN text : text[k] # "esc") /\ key.event = Pasted(text)
  <2>1. Len(key.bytes) \in Nat
    OBVIOUS
  <2>2. /\ size >= 0 /\ key.bytes = PasteStart \o text \o PasteEnd
        /\ (\A k \in DOMAIN text : text[k] # "esc") /\ key.event = Pasted(text)
    BY MarkBytes, <2>1 DEF IsPaste
  <2> QED BY <2>1, <2>2
<1>2. /\ text \in Seq(Byte) /\ Len(text) = size
      /\ \A k \in 1..size : text[k] = key.bytes[k + 6]
  BY <1>1
<1>3. /\ \A k \in 1..6 : key.bytes[k] = PasteStart[k]
      /\ \A k \in 1..6 : key.bytes[size + 6 + k] = PasteEnd[k]
  <2> HIDE DEF text, size
  <2> HIDE DEF text, size
  <2> DEFINE head == PasteStart \o text
             all == head \o PasteEnd
  <2>1. /\ head \in Seq(Byte) /\ Len(head) = 6 + size
        /\ \A k \in 1..(6 + size) : k <= 6 => head[k] = PasteStart[k]
    <3>1. /\ head \in Seq(Byte) /\ Len(head) = Len(PasteStart) + Len(text)
          /\ \A k \in 1..(Len(PasteStart) + Len(text)) :
               head[k] = IF k <= Len(PasteStart) THEN PasteStart[k] ELSE text[k - Len(PasteStart)]
      <4>1. PasteStart \in Seq(Byte) /\ text \in Seq(Byte)
        BY <1>2, MarkBytes
      <4> QED BY ONLY <4>1, ConcatProperties
    <3> QED BY <1>2, <3>1, MarkBytes
  <2> HIDE DEF head
  <2>2. \A k \in 1..(12 + size) :
          all[k] = IF k <= 6 + size THEN head[k] ELSE PasteEnd[k - (6 + size)]
    <3>1. \A k \in 1..(Len(head) + Len(PasteEnd)) :
            all[k] = IF k <= Len(head) THEN head[k] ELSE PasteEnd[k - Len(head)]
      BY <2>1, MarkBytes, ConcatProperties
    <3>2. Len(head) + Len(PasteEnd) = 12 + size
      BY <1>1, <2>1, MarkBytes
    <3> QED BY <2>1, <3>1, <3>2
  <2>3. key.bytes = all
    <3>1. PasteStart \o text \o PasteEnd = all
      BY DEF head
    <3> QED BY <1>1, <3>1
  <2> HIDE DEF all
  <2>4. \A k \in 1..6 : /\ k \in 1..(6 + size) /\ k \in 1..(12 + size) /\ k <= 6 + size
                       /\ size + 6 + k \in 1..(12 + size) /\ ~(size + 6 + k <= 6 + size)
                       /\ (size + 6 + k) - (6 + size) = k /\ k <= 6
    BY <1>1
  <2> QED BY <2>1, <2>2, <2>3, <2>4
<1>4. /\ from.bytes \in Seq(Byte) /\ Len(from.bytes) \in Nat /\ Len(from.bytes) >= size + 12
      /\ \A k \in 1..(size + 12) : from.bytes[k] = key.bytes[k]
  <2>1. Len(key.bytes) = size + 12
    OBVIOUS
  <2> QED BY <2>1 DEF IsDecoder, Begins
<1> HIDE DEF size, text
<1>5. /\ inner.bytes \in Seq(Byte) /\ Len(inner.bytes) = Len(from.bytes) - 6
      /\ \A k \in 1..Len(inner.bytes) : inner.bytes[k] = from.bytes[k + 6]
      /\ DOMAIN inner = {"bytes", "paste", "deadline"} /\ inner.paste = TRUE
      /\ inner.deadline = from.deadline
      /\ inner.bytes = SubSeq(from.bytes, 7, Len(from.bytes))
  <2>1. /\ inner.bytes = SubSeq(from.bytes, 7, Len(from.bytes)) /\ inner.paste = TRUE
        /\ DOMAIN inner = {"bytes", "paste", "deadline"} /\ inner.deadline = from.deadline
    BY DEF Rest, IsDecoder
  <2> HIDE DEF inner
  <2>2. /\ SubSeq(from.bytes, 7, Len(from.bytes)) \in Seq(Byte)
        /\ Len(SubSeq(from.bytes, 7, Len(from.bytes))) = Len(from.bytes) - 6
        /\ \A k \in 1..(Len(from.bytes) - 6) :
             SubSeq(from.bytes, 7, Len(from.bytes))[k] = from.bytes[k + 6]
    BY <1>1, <1>4
  <2> QED BY <2>1, <2>2
<1> HIDE DEF inner
<1>6. \A k \in 1..Len(inner.bytes) :
        Ends(k) <=> /\ k + 5 <= Len(inner.bytes)
                    /\ \A j \in 1..6 : inner.bytes[k + j - 1] = PasteEnd[j]
  <2> TAKE k \in 1..Len(inner.bytes)
  <2> DEFINE tail == SubSeq(inner.bytes, k, Len(inner.bytes))
  <2>1. /\ tail \in Seq(Byte) /\ Len(tail) = Len(inner.bytes) - k + 1
        /\ \A j \in 1..(Len(inner.bytes) - k + 1) : tail[j] = inner.bytes[k + j - 1]
    BY <1>5
  <2> HIDE DEF tail
  <2>2. Ends(k) <=> Begins(tail, PasteEnd)
    BY <2>1, MarkBytes, PrefixIs DEF tail
  <2> HIDE DEF Ends
  <2>3. Begins(tail, PasteEnd) <=> 6 <= Len(tail) /\ \A j \in 1..6 : tail[j] = PasteEnd[j]
    BY MarkBytes DEF Begins
  <2>4. 6 <= Len(tail) <=> k + 5 <= Len(inner.bytes)
    BY <1>5, <2>1
  <2>5. 6 <= Len(tail) => \A j \in 1..6 : tail[j] = inner.bytes[k + j - 1]
    BY <1>5, <2>1
  <2> QED BY <2>2, <2>3, <2>4, <2>5
<1> HIDE DEF Ends
<1>7. size + 1 \in ends
  <2>1. size + 1 \in 1..Len(inner.bytes) /\ (size + 1) + 5 <= Len(inner.bytes)
    BY <1>1, <1>4, <1>5
  <2>2. ASSUME NEW j \in 1..6 PROVE inner.bytes[(size + 1) + j - 1] = PasteEnd[j]
    <3>1. /\ (size + 1) + j - 1 = size + j /\ size + j \in 1..Len(inner.bytes)
          /\ (size + j) + 6 = size + 6 + j /\ size + 6 + j \in 1..(size + 12)
      BY <1>1, <1>4, <1>5
    <3>2. inner.bytes[size + j] = from.bytes[size + 6 + j]
      BY <1>5, <3>1
    <3>3. from.bytes[size + 6 + j] = key.bytes[size + 6 + j]
      BY <1>4, <3>1
    <3> QED BY <1>3, <3>1, <3>2, <3>3
  <2> QED BY <1>6, <2>1, <2>2
<1>8. \A k \in ends : size + 1 <= k
  <2> SUFFICES ASSUME NEW k \in ends, ~(size + 1 <= k) PROVE FALSE
    OBVIOUS
  <2>0. k \in 1..size
    <3>1. k \in Nat /\ k >= 1
      BY <1>5
    <3> HIDE DEF ends
    <3> QED BY <1>1, <3>1
  <2>1. inner.bytes[k + 1 - 1] = PasteEnd[1]
    BY <1>6
  <2>2. k \in 1..Len(inner.bytes) /\ k + 6 \in 1..(size + 12) /\ k + 1 - 1 = k
    BY <1>1, <1>4, <1>5
  <2>3. inner.bytes[k] = key.bytes[k + 6]
    BY <1>4, <1>5, <2>2
  <2>4. text[k] = key.bytes[k + 6] /\ k \in DOMAIN text
    BY <1>2
  <2> QED BY <1>1, <2>1, <2>2, <2>3, <2>4, MarkBytes
<1>9. Min(ends) = size + 1
  <2>1. \A x \in ends : (\A y \in ends : x <= y) => x = size + 1
    <3>1. \A x \in ends : x \in Int
      OBVIOUS
    <3> HIDE DEF ends
    <3>2. \A x, y \in Int : x <= y /\ y <= x => x = y
      OBVIOUS
    <3> QED BY <1>1, <1>7, <1>8, <3>1, <3>2
  <2> HIDE DEF ends
  <2> QED BY <1>7, <1>8, <2>1 DEF Min
<1>10. SubSeq(inner.bytes, 1, Min(ends) - 1) = text
  <2>1. Min(ends) - 1 = size
    BY <1>1, <1>9
  <2>2. /\ SubSeq(inner.bytes, 1, size) \in Seq(Byte) /\ Len(SubSeq(inner.bytes, 1, size)) = size
        /\ \A k \in 1..size : SubSeq(inner.bytes, 1, size)[k] = inner.bytes[k]
    BY <1>1, <1>4, <1>5
  <2>3. \A k \in 1..size : inner.bytes[k] = text[k]
    <3> TAKE k \in 1..size
    <3>1. k \in 1..Len(inner.bytes) /\ k + 6 \in 1..(size + 12)
      BY <1>1, <1>4, <1>5
    <3> QED BY <1>2, <1>4, <1>5, <3>1
  <2> DEFINE got == SubSeq(inner.bytes, 1, size)
  <2>4. /\ got \in Seq(Byte) /\ Len(got) = Len(text)
        /\ \A k \in 1..Len(got) : got[k] = text[k]
    BY <1>2, <2>2, <2>3
  <2> HIDE DEF got
  <2>5. got = text
    BY <1>2, <2>4, SeqEqual
  <2> QED BY <2>1, <2>5 DEF got
<1>11. DecodePaste(inner) = Gives(key.event, after)
  <2>1. DecodePaste(inner) = Gives(Pasted(SubSeq(inner.bytes, 1, Min(ends) - 1)), after)
    <3>1. ends # {}
      BY <1>7
    <3> QED BY <3>1 DEF DecodePaste, Ends
  <2> QED BY <1>1, <1>10, <2>1
<1>12. Took(from, size + 12, Cleared(after))
  <2>1. Min(ends) - 1 + Len(PasteEnd) = size + 6
    BY <1>1, <1>9, MarkBytes
  <2>2. /\ after.bytes = SubSeq(inner.bytes, size + 6 + 1, Len(inner.bytes))
        /\ after.paste = FALSE /\ DOMAIN after = {"bytes", "paste", "deadline"}
    BY <1>5, <2>1 DEF Rest
  <2>3. SubSeq(inner.bytes, size + 6 + 1, Len(inner.bytes))
          = SubSeq(from.bytes, (size + 12) + 1, Len(from.bytes))
    <3> DEFINE a == SubSeq(inner.bytes, size + 6 + 1, Len(inner.bytes))
               b == SubSeq(from.bytes, (size + 12) + 1, Len(from.bytes))
               rest == Len(from.bytes) - (size + 12)
    <3>1. /\ a \in Seq(Byte) /\ Len(a) = rest
          /\ \A k \in 1..rest : a[k] = inner.bytes[k + (size + 6)]
      BY <1>1, <1>4, <1>5
    <3>2. /\ b \in Seq(Byte) /\ Len(b) = rest
          /\ \A k \in 1..rest : b[k] = from.bytes[k + (size + 12)]
      BY <1>1, <1>4
    <3>3. \A k \in 1..rest : /\ k + (size + 6) \in 1..Len(inner.bytes)
                             /\ (k + (size + 6)) + 6 = k + (size + 12)
      BY <1>1, <1>4, <1>5
    <3> HIDE DEF a, b, rest
    <3>4. \A k \in 1..rest : a[k] = b[k]
      BY <1>5, <3>1, <3>2, <3>3
    <3>5. a = b
      BY <3>1, <3>2, <3>4, SeqEqual
    <3> QED BY <3>5 DEF a, b
  <2>4. SubSeq(from.bytes, (size + 12) + 1, Len(from.bytes)) \in Seq(Byte)
    BY <1>1, <1>4
  <2> HIDE DEF after
  <2> QED BY <2>2, <2>3, <2>4 DEF Cleared, Took, IsDecoder
<1>13. Decode(from) = DecodeEscape(from) /\ Len(from.bytes) > 1 /\ IsPrefix(PasteStart, from.bytes)
  <2>1. Begins(from.bytes, PasteStart)
    <3>1. 6 <= Len(from.bytes) /\ \A k \in 1..6 : k \in 1..(size + 12)
      BY <1>1, <1>4
    <3> QED BY <1>3, <1>4, <3>1, MarkBytes DEF Begins
  <2>2. from.bytes[1] = "esc" /\ from.bytes # <<>> /\ Len(from.bytes) > 1
    BY <1>1, <1>4, <2>1, MarkBytes DEF Begins
  <2> QED BY <1>4, <2>1, <2>2, MarkBytes, PrefixIs, EscapeDecodes
<1>14. DecodeEscape(from) = Gives(key.event, Cleared(after))
  <2> DEFINE paste == DecodePaste([Rest(from, Len(PasteStart)) EXCEPT !.paste = TRUE])
  <2>1. paste = Gives(key.event, after)
    BY <1>11, MarkBytes DEF inner
  <2>2. paste.event = key.event /\ paste.after = after /\ paste.event # NoEvent
    <3>1. key.event # NoEvent
      <4>1. "paste" \in DOMAIN key.event /\ "paste" \notin DOMAIN NoEvent
        BY <1>1 DEF Pasted, NoEvent
      <4> QED BY <4>1
    <3> HIDE DEF paste, after
    <3> QED BY <2>1, <3>1 DEF Gives
  <2>3. {sequence \in Sequences : IsPrefix(sequence.bytes, from.bytes)} = {}
    <3>1. \A sequence \in Sequences : ~IsPrefix(sequence.bytes, from.bytes)
      <4> TAKE sequence \in Sequences
      <4>1. sequence.bytes \in Seq(Byte) /\ sequence.bytes[3] # "2" /\ Len(sequence.bytes) \in {3, 4}
        BY SequenceBytes DEF Thirds
      <4>2. from.bytes[3] = "2"
        <5>1. 3 \in 1..6 /\ 3 \in 1..(size + 12)
          BY <1>1
        <5> QED BY <1>3, <1>4, <5>1, MarkBytes
      <4>3. ~Begins(from.bytes, sequence.bytes)
        BY <4>1, <4>2 DEF Begins
      <4> QED BY <1>4, <4>1, <4>3, PrefixIs
    <3> QED BY <3>1
  <2>4. Len(from.bytes) # 1
    <3>1. \A m, n \in Nat : n >= m + 12 => n # 1
      OBVIOUS
    <3> QED BY <1>1, <1>4, <3>1
  <2> HIDE DEF after, paste
  <2>5. DecodeEscape(from) = Gives(paste.event, Cleared(paste.after))
    BY <1>13, <2>2, <2>3, <2>4 DEF DecodeEscape, paste
  <2> QED BY <2>2, <2>5
<1>15. Len(key.bytes) = size + 12
  BY DEF size
<1> HIDE DEF after
<1> QED BY <1>12, <1>13, <1>14, <1>15 DEF Gives

-----------------------------------------------------------------------------
(* Where each key that waits begins and ends in the bytes. *)

Divides(at, keys, bytes) ==
    /\ at \in [0..Len(keys) -> 0..Len(bytes)]
    /\ at[0] = 0 /\ at[Len(keys)] = Len(bytes)
    /\ \A i, j \in 0..Len(keys) : i <= j => at[i] <= at[j]
    /\ \A k \in 1..Len(keys) :
         /\ at[k] = at[k - 1] + Len(keys[k].bytes)
         /\ \A j \in 1..Len(keys[k].bytes) : bytes[at[k - 1] + j] = keys[k].bytes[j]

\* Keys whose bytes are bytes.
HaveBytes(keys) ==
    /\ DOMAIN keys = 1..Len(keys) /\ Len(keys) \in Nat
    /\ \A k \in 1..Len(keys) : keys[k].bytes \in Seq(Byte) /\ Len(keys[k].bytes) \in Nat

LEMMA DividesHead ==
    ASSUME NEW keys, HaveBytes(keys), Len(keys) # 0, NEW bytes \in Seq(Byte),
           NEW at, Divides(at, keys, bytes)
    PROVE  /\ Begins(bytes, keys[1].bytes)
           /\ Len(keys) = 1 => Len(bytes) = Len(keys[1].bytes)
           /\ Len(keys) # 1 =>
                Len(keys[1].bytes) + Len(keys[Len(keys)].bytes) <= Len(bytes)
<1> DEFINE n == Len(keys)
<1>1. n \in Nat /\ n >= 1 /\ 1 \in 1..n /\ n \in 1..n /\ 1 \in 0..n /\ n - 1 \in 0..n
  BY DEF HaveBytes
<1>2. Len(keys[1].bytes) \in Nat /\ Len(keys[n].bytes) \in Nat /\ Len(bytes) \in Nat
  BY <1>1 DEF HaveBytes
<1>3. /\ at[1] \in 0..Len(bytes) /\ at[n - 1] \in 0..Len(bytes) /\ at[0] = 0
      /\ at[n] = Len(bytes) /\ at[n] = at[n - 1] + Len(keys[n].bytes)
      /\ (n # 1 => at[1] <= at[n - 1])
  <2>1. \A i \in 0..n : at[i] \in 0..Len(bytes)
    BY DEF Divides
  <2>2. /\ at[0] = 0 /\ at[n] = Len(bytes)
        /\ at[n] = at[n - 1] + Len(keys[n].bytes)
    BY <1>1 DEF Divides
  <2>3. n # 1 => at[1] <= at[n - 1]
    <3>1. \A m \in Nat : m >= 1 /\ m # 1 => 1 <= m - 1
      OBVIOUS
    <3> QED BY <1>1, <3>1 DEF Divides
  <2> HIDE DEF n
  <2> QED BY <1>1, <2>1, <2>2, <2>3
<1>4. at[1] = Len(keys[1].bytes)
  <2>1. at[1] = at[1 - 1] + Len(keys[1].bytes) /\ 1 - 1 = 0
    BY <1>1 DEF Divides
  <2> QED BY <1>2, <1>3, <2>1
<1>5. \A j \in 1..Len(keys[1].bytes) : bytes[j] = keys[1].bytes[j]
  <2>1. \A j \in 1..Len(keys[1].bytes) : bytes[at[1 - 1] + j] = keys[1].bytes[j]
    BY <1>1 DEF Divides
  <2>2. \A j \in 1..Len(keys[1].bytes) : at[1 - 1] + j = j
    BY <1>2, <1>3
  <2> QED BY <2>1, <2>2
<1> HIDE DEF n
<1>6. n = 1 => Len(bytes) = Len(keys[1].bytes)
  BY <1>3, <1>4
<1>7. n # 1 => Len(keys[1].bytes) + Len(keys[n].bytes) <= Len(bytes)
  <2> SUFFICES ASSUME n # 1 PROVE at[1] + Len(keys[n].bytes) <= Len(bytes)
    BY <1>4
  <2> DEFINE a == at[1]
             b == at[n - 1]
             c == Len(keys[n].bytes)
             d == Len(bytes)
  <2>1. a \in Nat /\ b \in Nat /\ c \in Nat /\ d \in Nat /\ a <= b /\ d = b + c
    BY <1>2, <1>3
  <2> HIDE DEF a, b, c, d
  <2>2. a + c <= d
    BY <2>1
  <2> QED BY <2>2 DEF a, c, d
<1>8. Begins(bytes, keys[1].bytes)
  BY <1>2, <1>3, <1>4, <1>5 DEF Begins
<1> QED BY <1>6, <1>7, <1>8 DEF n

LEMMA DividesTail ==
    ASSUME NEW K, NEW keys \in Seq(K), HaveBytes(keys), keys # <<>>, NEW bytes \in Seq(Byte),
           NEW at, Divides(at, keys, bytes)
    PROVE  \E after :
             Divides(after, Tail(keys), SubSeq(bytes, Len(keys[1].bytes) + 1, Len(bytes)))
<1> DEFINE n == Len(keys)
           first == Len(keys[1].bytes)
           rest == SubSeq(bytes, first + 1, Len(bytes))
           tail == Tail(keys)
           after == [k \in 0..Len(tail) |-> at[k + 1] - first]
<1>1. /\ n \in Nat /\ n >= 1 /\ Len(tail) = n - 1
      /\ \A k \in 1..(n - 1) : tail[k] = keys[k + 1]
  BY EmptySeq DEF HaveBytes
<1>2. first \in Nat /\ Len(bytes) \in Nat /\ first <= Len(bytes)
  <2>1. n # 0 /\ 1 \in 1..n
    BY <1>1
  <2>2. Begins(bytes, keys[1].bytes)
    BY <2>1, DividesHead
  <2> QED BY <2>1, <2>2 DEF Begins, HaveBytes
<1>3. /\ Len(rest) = Len(bytes) - first
      /\ \A k \in 1..(Len(bytes) - first) : rest[k] = bytes[k + first]
  <2> HIDE DEF first
  <2> QED BY <1>2
<1>4. at[1] = first /\ at[0] = 0
  <2>1. at[1] = at[1 - 1] + Len(keys[1].bytes) /\ 1 - 1 = 0 /\ at[0] = 0
    BY <1>1 DEF Divides
  <2> QED BY <1>2, <2>1
<1>5. \A k \in 0..n : at[k] \in 0..Len(bytes) /\ (k >= 1 => first <= at[k])
  <2>1. \A k \in 0..n : at[k] \in 0..Len(bytes)
    BY DEF Divides
  <2>2. \A k \in 0..n : k >= 1 => 1 \in 0..n /\ 1 <= k
    BY <1>1
  <2>3. \A i, j \in 0..n : i <= j => at[i] <= at[j]
    BY DEF Divides
  <2> QED BY <1>4, <2>1, <2>2, <2>3
<1> HIDE DEF first, rest, tail
<1>6. \A k \in 0..(n - 1) : k + 1 \in 0..n /\ k + 1 >= 1
  BY <1>1
<1>7. \A k \in 0..(n - 1) : after[k] = at[k + 1] - first
  BY <1>1
<1>8. after \in [0..(n - 1) -> 0..Len(rest)]
  <2>1. \A k \in 0..(n - 1) : after[k] \in 0..Len(rest)
    BY <1>2, <1>3, <1>5, <1>6, <1>7
  <2> QED BY <1>1, <2>1
<1>9. after[0] = 0 /\ after[n - 1] = Len(rest)
  <2>1. 0 \in 0..(n - 1) /\ n - 1 \in 0..(n - 1) /\ 0 + 1 = 1 /\ (n - 1) + 1 = n
    BY <1>1
  <2>2. after[0] = first - first /\ after[n - 1] = at[n] - first /\ at[n] = Len(bytes)
    BY <1>4, <1>7, <2>1 DEF Divides
  <2> QED BY <1>2, <1>3, <2>2
<1>10. \A i, j \in 0..(n - 1) : i <= j => after[i] <= after[j]
  <2> TAKE i, j \in 0..(n - 1)
  <2>1. i <= j => at[i + 1] <= at[j + 1]
    BY <1>1, <1>6 DEF Divides
  <2> QED BY <1>2, <1>5, <1>6, <1>7, <2>1
<1>11. ASSUME NEW k \in 1..(n - 1)
       PROVE  /\ after[k] = after[k - 1] + Len(tail[k].bytes)
              /\ \A j \in 1..Len(tail[k].bytes) : rest[after[k - 1] + j] = tail[k].bytes[j]
  <2> DEFINE size == Len(tail[k].bytes)
  <2>1. /\ k + 1 \in 1..n /\ (k + 1) - 1 = k /\ (k - 1) + 1 = k /\ k \in 0..n /\ k >= 1
        /\ k \in 0..(n - 1) /\ k - 1 \in 0..(n - 1) /\ k + 1 \in 0..n
    BY <1>1
  <2>2. tail[k] = keys[k + 1]
    BY <1>1
  <2>3. /\ at[k + 1] = at[k] + size /\ size \in Nat
        /\ \A j \in 1..size : bytes[at[k] + j] = tail[k].bytes[j]
    BY <2>1, <2>2 DEF Divides, HaveBytes
  <2>4. /\ after[k] = at[k + 1] - first /\ after[k - 1] = at[k] - first
        /\ first <= at[k] /\ at[k] \in 0..Len(bytes) /\ at[k + 1] \in 0..Len(bytes)
    BY <1>5, <1>7, <2>1
  <2> HIDE DEF size, after
  <2>5. after[k] = after[k - 1] + size
    BY <1>2, <2>3, <2>4
  <2>6. ASSUME NEW j \in 1..size PROVE rest[after[k - 1] + j] = tail[k].bytes[j]
    <3>1. /\ after[k - 1] + j \in 1..(Len(bytes) - first)
          /\ (after[k - 1] + j) + first = at[k] + j
      <4> DEFINE a == at[k]
                 c == Len(bytes)
                 f == after[k - 1]
      <4>1. a \in Nat /\ a + size <= c /\ c \in Nat /\ first <= a /\ f = a - first
        BY <1>2, <2>3, <2>4
      <4> HIDE DEF a, c, f
      <4>2. f + j \in 1..(c - first) /\ (f + j) + first = a + j
        BY <1>2, <2>3, <4>1
      <4> QED BY <4>2 DEF a, c, f
    <3> QED BY <1>3, <2>3, <3>1
  <2> QED BY <2>5, <2>6 DEF size
<1> HIDE DEF after
<1>12. Divides(after, tail, rest)
  BY <1>1, <1>8, <1>9, <1>10, <1>11 DEF Divides
<1> QED BY <1>12 DEF tail, rest, first

LEMMA Joined ==
    ASSUME NEW front \in Seq(Byte), NEW back \in Seq(Byte)
    PROVE  /\ front \o back \in Seq(Byte) /\ Len(front \o back) = Len(front) + Len(back)
           /\ \A k \in 1..Len(front) : (front \o back)[k] = front[k]
           /\ \A k \in 1..Len(back) : (front \o back)[Len(front) + k] = back[k]
BY ConcatProperties

LEMMA JoinedTwice ==
    ASSUME NEW front \in Seq(Byte), NEW middle \in Seq(Byte), NEW back \in Seq(Byte)
    PROVE  (front \o middle) \o back = front \o (middle \o back)
BY ConcatAssociative

LEMMA DividesAppend ==
    ASSUME NEW K, NEW keys \in Seq(K), HaveBytes(keys), NEW bytes \in Seq(Byte),
           NEW at, Divides(at, keys, bytes), NEW key \in K, key.bytes \in Seq(Byte)
    PROVE  \E after : Divides(after, Append(keys, key), bytes \o key.bytes)
<1> DEFINE n == Len(keys)
           size == Len(key.bytes)
           l == Len(bytes)
           all == bytes \o key.bytes
           more == Append(keys, key)
           after == [k \in 0..Len(more) |-> IF k <= n THEN at[k] ELSE l + size]
<1>1. /\ n \in Nat /\ Len(more) = n + 1 /\ more[n + 1] = key
      /\ \A k \in 1..n : more[k] = keys[k]
  BY DEF HaveBytes
<1>2. /\ l \in Nat /\ size \in Nat /\ Len(all) = l + size
      /\ (\A j \in 1..l : all[j] = bytes[j]) /\ (\A j \in 1..size : all[l + j] = key.bytes[j])
  BY Joined
<1>3. /\ \A k \in 0..n : at[k] \in 0..l
      /\ at[0] = 0 /\ at[n] = l
      /\ \A i, j \in 0..n : i <= j => at[i] <= at[j]
      /\ \A k \in 1..n :
           /\ at[k] = at[k - 1] + Len(keys[k].bytes)
           /\ \A j \in 1..Len(keys[k].bytes) : bytes[at[k - 1] + j] = keys[k].bytes[j]
  BY DEF Divides
<1>4. \A k \in 1..n : Len(keys[k].bytes) \in Nat
  BY DEF HaveBytes
<1> HIDE DEF n, size, l, all, more
<1>5. /\ \A k \in 0..n : after[k] = at[k]
      /\ after[n + 1] = l + size
  BY <1>1
<1>6. \A k \in 0..(n + 1) : k \in 0..n \/ k = n + 1
  BY <1>1
<1>7. after \in [0..(n + 1) -> 0..Len(all)]
  <2>1. \A k \in 0..(n + 1) : after[k] \in 0..Len(all)
    BY <1>2, <1>3, <1>5, <1>6
  <2> QED BY <1>1, <2>1
<1> HIDE DEF after
<1>8. after[0] = 0 /\ after[n + 1] = Len(all)
  BY <1>1, <1>2, <1>3, <1>5
<1>9. \A i, j \in 0..(n + 1) : i <= j => after[i] <= after[j]
  <2> TAKE i, j \in 0..(n + 1)
  <2>1. CASE j \in 0..n /\ i \in 0..n
    BY <1>3, <1>5, <2>1
  <2>2. CASE j = n + 1
    <3>1. after[i] \in 0..Len(all) /\ after[j] = Len(all)
      BY <1>7, <1>8, <2>2
    <3> QED BY <1>2, <3>1
  <2>3. CASE j \in 0..n /\ i = n + 1
    BY <1>1, <2>3
  <2> QED BY <1>6, <2>1, <2>2, <2>3
<1>10. ASSUME NEW k \in 1..(n + 1)
       PROVE  /\ after[k] = after[k - 1] + Len(more[k].bytes)
              /\ \A j \in 1..Len(more[k].bytes) : all[after[k - 1] + j] = more[k].bytes[j]
  <2>1. CASE k \in 1..n
    <3>1. k \in 0..n /\ k - 1 \in 0..n
      BY <1>1, <2>1
    <3>2. after[k] = at[k] /\ after[k - 1] = at[k - 1] /\ more[k] = keys[k]
      BY <1>1, <1>5, <2>1, <3>1
    <3>3. at[k] = at[k - 1] + Len(keys[k].bytes) /\ at[k - 1] \in 0..l /\ at[k] \in 0..l
      BY <1>3, <2>1, <3>1
    <3>4. ASSUME NEW j \in 1..Len(keys[k].bytes) PROVE all[at[k - 1] + j] = keys[k].bytes[j]
      <4>1. at[k - 1] + j \in 1..l
        <5> DEFINE a == at[k - 1]
                   c == Len(keys[k].bytes)
        <5>1. a \in Nat /\ c \in Nat /\ a + c <= l /\ j \in 1..c
          BY <1>2, <1>4, <2>1, <3>3
        <5> HIDE DEF a, c
        <5>2. a + j \in 1..l
          BY <1>2, <5>1
        <5> QED BY <5>2 DEF a
      <4> QED BY <1>2, <1>3, <2>1, <4>1
    <3> QED BY <3>2, <3>3, <3>4
  <2>2. CASE k = n + 1
    <3>1. k - 1 = n /\ n \in 0..n /\ more[k] = key
      BY <1>1, <2>2
    <3>2. after[k] = l + size /\ after[k - 1] = l
      BY <1>3, <1>5, <2>2, <3>1
    <3>3. after[k] = after[k - 1] + Len(more[k].bytes)
      BY <3>1, <3>2 DEF size
    <3> QED BY <1>2, <3>1, <3>2, <3>3 DEF size
  <2>3. k \in 1..n \/ k = n + 1
    BY <1>1
  <2> QED BY <2>1, <2>2, <2>3
<1>11. Divides(after, more, all)
  BY <1>1, <1>7, <1>8, <1>9, <1>10 DEF Divides
<1> QED BY <1>11 DEF more, all

-----------------------------------------------------------------------------
(* The keys that wait. *)

Kind(key) ==
    \/ IsByte(key) \/ IsWide(key) \/ IsBare(key) \/ IsSequence(key)
    \/ (IsAlt(key) \/ IsPaste(key)) /\ key \in WholeKeys
AllSent == \A key \in UNION Keyboards : key.bytes \in Seq(Byte) /\ Kind(key)

LEMMA SentKeys ==
    ASSUME AreSent(Keyboards, WholeKeys)
    PROVE  AllSent
<1> SUFFICES ASSUME NEW keys \in Keyboards, NEW key \in keys
             PROVE  key.bytes \in Seq(Byte) /\ Kind(key)
  BY DEF AllSent
<1>1. key.bytes \in Seq(Range(key.bytes)) /\ Kind(key)
  BY DEF AreSent, Kind
<1>2. Range(key.bytes) \subseteq Byte
  BY DEF Byte
<1>3. \A k \in 1..Len(key.bytes) : key.bytes[k] \in Byte
  BY <1>1, <1>2
<1> QED BY <1>1, <1>3

\* What their bytes are at least, and what no key becomes.
LEMMA KeyBytes ==
    ASSUME NEW key, key.bytes \in Seq(Byte), Kind(key)
    PROVE  Len(key.bytes) \in Nat /\ Len(key.bytes) >= 1 /\ key.event # NoEvent
<1>1. Len(key.bytes) \in Nat
  OBVIOUS
<1>2. /\ \A code, mod : Modified(code, mod) # NoEvent
      /\ \A code : Key(code) # NoEvent
  <2>1. ASSUME NEW code, NEW mod PROVE Modified(code, mod) # NoEvent
    <3>1. "code" \in DOMAIN Modified(code, mod) /\ "code" \notin DOMAIN NoEvent
      BY DEF NoEvent, Modified
    <3> QED BY <3>1
  <2>2. \A code : Key(code) = Modified(code, "none")
    BY DEF Key, Modified
  <2> QED BY <2>1, <2>2
<1>3. \A text : Pasted(text) # NoEvent
  <2> TAKE text
  <2>1. "paste" \in DOMAIN Pasted(text) /\ "paste" \notin DOMAIN NoEvent
    BY DEF Pasted, NoEvent
  <2> QED BY <2>1
<1>4. CASE IsByte(key)
  <2> DEFINE byte == key.bytes[1]
  <2>1. \/ key.event = Key(Plain[byte]) \/ key.event = Modified(ControlKeys[byte], "control")
        \/ key.event = Key(byte)
    BY <1>4 DEF IsByte
  <2>2. key.event # NoEvent
    BY <1>2, <2>1, Zenon
  <2>3. Len(key.bytes) = 1
    BY <1>4 DEF IsByte
  <2> QED BY <2>2, <2>3
<1>5. CASE IsWide(key)
  <2>1. Len(key.bytes) = 2 /\ key.event = Key(key.bytes[2])
    BY <1>5 DEF IsWide
  <2> QED BY <1>1, <1>2, <2>1
<1>6. CASE IsBare(key)
  <2>1. key.bytes = <<"esc">> /\ key.event = Key("esc")
    BY <1>6 DEF IsBare, IsEscape
  <2> QED BY <1>1, <1>2, <2>1
<1>7. CASE IsSequence(key)
  <2> DEFINE s == [bytes |-> key.bytes, event |-> key.event]
  <2>1. s \in Sequences /\ s.bytes = key.bytes /\ s.event = key.event
    BY <1>7 DEF IsSequence
  <2> HIDE DEF s
  <2>2. Len(s.bytes) \in {3, 4} /\ s = Named(s.bytes[2], s.bytes[3])
    BY <2>1, SequenceBytes
  <2>3. \A second, third : Named(second, third).event # NoEvent
    BY <1>2 DEF Named
  <2>4. s.event # NoEvent
    BY <2>2, <2>3
  <2> QED BY <1>1, <2>1, <2>2, <2>4
<1>8. CASE IsAlt(key)
  <2>1. Len(key.bytes) = 2 /\ key.event = Modified(key.bytes[2], "alt")
    BY <1>8 DEF IsAlt
  <2>2. key.event # NoEvent
    BY <1>2, <2>1, Zenon
  <2> QED BY <2>1, <2>2
<1>9. CASE IsPaste(key)
  <2>1. Len(key.bytes) >= 12 /\ \E text : key.event = Pasted(text)
    BY <1>1, <1>9, MarkBytes DEF IsPaste
  <2> QED BY <1>1, <1>3, <2>1
<1> QED BY <1>4, <1>5, <1>6, <1>7, <1>8, <1>9 DEF Kind

\* Only the last key may have arrived in part, a bare Escape only be the last,
\* and time is taken only by an Escape or a sequence, the first of the keys.
LastFits(keys, rest) ==
    /\ \A k \in 1..Len(keys) : IsEscape(keys[k]) => k = Len(keys)
    /\ keys # <<>> =>
         /\ Len(rest) <= Len(keys[Len(keys)].bytes)
         /\ keys[Len(keys)] \in WholeKeys => rest = <<>> \/ rest = keys[Len(keys)].bytes
DeadlineFits(from, keys) ==
    /\ from.deadline # "none" => keys # <<>> /\ (IsSequence(keys[1]) \/ IsBare(keys[1]))
    /\ from.deadline = "past" => Len(keys[1].bytes) <= Len(from.bytes)
Waiting(from, rest, keys) ==
    /\ IsDecoder(from) /\ rest \in Seq(Byte) /\ keys \in Seq(UNION Keyboards)
    /\ \E at : Divides(at, keys, from.bytes \o rest)
    /\ LastFits(keys, rest) /\ DeadlineFits(from, keys)
KeysInv == keyboard \in Keyboards /\ Waiting(decoder, transit, pending)

LEMMA PendingBytes ==
    ASSUME AllSent, NEW keys \in Seq(UNION Keyboards)
    PROVE  HaveBytes(keys) /\ \A k \in 1..Len(keys) : keys[k].bytes \in Seq(Byte) /\ Kind(keys[k])
BY DEF HaveBytes, AllSent

\* Of the first key a part arrived, or all of it.
LEMMA HeadArrives ==
    ASSUME AllSent, NEW from, NEW rest, NEW keys, Waiting(from, rest, keys), keys # <<>>
    PROVE  /\ keys[1].bytes \in Seq(Byte) /\ Kind(keys[1])
           /\ \/ Begins(from.bytes, keys[1].bytes)
              \/ /\ Begins(keys[1].bytes, from.bytes) /\ Len(from.bytes) < Len(keys[1].bytes)
                 /\ Len(keys) = 1
                 /\ keys[1] \in WholeKeys => from.bytes = <<>>
           /\ IsEscape(keys[1]) => Len(from.bytes) <= 1
<1> DEFINE n == Len(keys)
           head == keys[1].bytes
           all == from.bytes \o rest
           d == Len(from.bytes)
           t == Len(rest)
<1>1. /\ from.bytes \in Seq(Byte) /\ rest \in Seq(Byte) /\ keys \in Seq(UNION Keyboards)
      /\ d \in Nat /\ t \in Nat
  BY DEF Waiting, IsDecoder
<1>2. n \in Nat /\ n # 0 /\ 1 \in 1..n /\ n \in 1..n /\ HaveBytes(keys)
  BY <1>1, PendingBytes, EmptySeq
<1>3. /\ head \in Seq(Byte) /\ Len(head) \in Nat /\ Len(keys[n].bytes) \in Nat
      /\ Kind(keys[1])
  BY <1>1, <1>2, PendingBytes
<1>4. /\ all \in Seq(Byte) /\ Len(all) = d + t
      /\ (\A j \in 1..d : all[j] = from.bytes[j])
  BY <1>1, Joined
<1>5. PICK at : Divides(at, keys, all)
  BY DEF Waiting
<1>6. /\ Begins(all, head)
      /\ n = 1 => Len(all) = Len(head)
      /\ n # 1 => Len(head) + Len(keys[n].bytes) <= Len(all)
  BY <1>2, <1>4, <1>5, DividesHead
<1>7. t <= Len(keys[n].bytes)
  BY DEF Waiting, LastFits
<1> HIDE DEF all
<1>8. Len(head) <= d => Begins(from.bytes, head)
  <2> SUFFICES ASSUME Len(head) <= d, NEW k \in 1..Len(head) PROVE from.bytes[k] = head[k]
    BY DEF Begins
  <2>1. k \in 1..d
    BY <1>1, <1>3
  <2> QED BY <1>4, <1>6, <2>1 DEF Begins
<1>9. d < Len(head) => n = 1
  <2> SUFFICES ASSUME n # 1, d < Len(head) PROVE FALSE
    OBVIOUS
  <2>1. Len(head) + Len(keys[n].bytes) <= d + t
    BY <1>4, <1>6
  <2> DEFINE h == Len(head)
             last == Len(keys[n].bytes)
  <2>2. h + last <= d + t /\ t <= last /\ d < h /\ h \in Nat /\ last \in Nat
    BY <1>3, <1>7, <2>1
  <2> HIDE DEF h, last, d, t
  <2> QED BY <1>1, <2>2
<1>10. d < Len(head) => Begins(head, from.bytes)
  <2> SUFFICES ASSUME d < Len(head), NEW k \in 1..d PROVE head[k] = from.bytes[k]
    <3>1. d < Len(head) => d <= Len(head)
      BY <1>1, <1>3
    <3> QED BY <3>1 DEF Begins
  <2>1. k \in 1..Len(head)
    BY <1>1, <1>3
  <2> QED BY <1>4, <1>6, <2>1 DEF Begins
<1>11. d < Len(head) /\ keys[1] \in WholeKeys => from.bytes = <<>>
  <2> SUFFICES ASSUME d < Len(head), keys[1] \in WholeKeys PROVE from.bytes = <<>>
    OBVIOUS
  <2>1. n = 1 /\ d + t = Len(head) /\ (rest = <<>> \/ rest = head)
    BY <1>4, <1>6, <1>9 DEF Waiting, LastFits
  <2>2. rest = <<>> => t = 0
    OBVIOUS
  <2>3. rest = head => t = Len(head)
    OBVIOUS
  <2> DEFINE h == Len(head)
  <2>4. d + t = h /\ d < h /\ (t = 0 \/ t = h) /\ h \in Nat
    BY <1>3, <2>1, <2>2, <2>3
  <2>5. d = 0
    <3> HIDE DEF d, t, h
    <3> QED BY <1>1, <2>4
  <2> QED BY <1>1, <2>5, EmptySeq
<1>12. IsEscape(keys[1]) => d <= 1
  <2> SUFFICES ASSUME IsEscape(keys[1]) PROVE d <= 1
    OBVIOUS
  <2>1. n = 1 /\ Len(head) = 1
    BY <1>2 DEF IsEscape, Waiting, LastFits
  <2>2. d + t = 1
    BY <1>4, <1>6, <2>1
  <2> HIDE DEF d, t
  <2> QED BY <1>1, <2>2
<1>13. Len(head) <= d \/ d < Len(head)
  BY <1>1, <1>3
<1> QED BY <1>3, <1>8, <1>9, <1>10, <1>11, <1>12, <1>13

\* The next event is the first key, once it arrived, and takes its bytes;
\* before, the decoder keeps what it has.
LEMMA HeadDecodes ==
    ASSUME AllSent, NEW from, NEW rest, NEW keys, Waiting(from, rest, keys)
    PROVE  \/ /\ keys # <<>> /\ Decode(from).event = keys[1].event /\ keys[1].event # NoEvent
              /\ Begins(from.bytes, keys[1].bytes)
              /\ Took(from, Len(keys[1].bytes), Decode(from).after)
           \/ /\ Decode(from).event = NoEvent /\ IsDecoder(Decode(from).after)
              /\ Decode(from).after.bytes = from.bytes
              /\ DeadlineFits(Decode(from).after, keys)
<1>1. IsDecoder(from) /\ keys \in Seq(UNION Keyboards) /\ rest \in Seq(Byte) /\ DeadlineFits(from, keys)
  BY DEF Waiting
<1>2. ASSUME from.bytes = <<>> PROVE /\ Decode(from).event = NoEvent /\ Decode(from).after = from
  BY <1>1, <1>2, NothingDecodes DEF Gives
<1>3. CASE keys = <<>>
  <2>1. PICK at : Divides(at, keys, from.bytes \o rest)
    BY DEF Waiting
  <2>2. Len(from.bytes \o rest) = 0
    BY <1>3, <2>1 DEF Divides
  <2>3. Len(from.bytes) = 0
    BY <1>1, <2>2 DEF IsDecoder
  <2>4. from.bytes = <<>>
    BY <1>1, <2>3, EmptySeq DEF IsDecoder
  <2> QED BY <1>1, <1>2, <2>4
<1>4. CASE keys # <<>>
  <2> DEFINE head == keys[1]
             d == Len(from.bytes)
  <2>1. /\ head.bytes \in Seq(Byte) /\ Kind(head)
        /\ \/ Begins(from.bytes, head.bytes)
           \/ /\ Begins(head.bytes, from.bytes) /\ d < Len(head.bytes)
              /\ head \in WholeKeys => from.bytes = <<>>
        /\ IsEscape(head) => d <= 1
    BY <1>4, HeadArrives
  <2>2. /\ Len(head.bytes) \in Nat /\ Len(head.bytes) >= 1 /\ head.event # NoEvent
    BY <2>1, KeyBytes
  <2>3. from.bytes \in Seq(Byte) /\ d \in Nat
    BY <1>1 DEF IsDecoder
  <2>4. from.deadline # "none" => IsSequence(head) \/ IsBare(head)
    BY <1>1 DEF DeadlineFits
  <2>5. from.deadline = "past" => Len(head.bytes) <= d
    BY <1>1 DEF DeadlineFits
  <2> HIDE DEF head
  <2>6. CASE Begins(from.bytes, head.bytes) /\ ~IsBare(head)
    <3>1. Decode(from).event = head.event /\ Took(from, Len(head.bytes), Decode(from).after)
      <4>1. CASE IsByte(head)
        BY <1>1, <2>6, <4>1, ByteDecodes DEF IsByte
      <4>2. CASE IsWide(head)
        BY <1>1, <2>6, <4>2, WideDecodes DEF IsWide
      <4>3. CASE IsSequence(head)
        BY <1>1, <2>6, <4>3, SequenceDecodes
      <4>4. CASE IsAlt(head) /\ ~IsSequence(head)
        BY <1>1, <2>4, <2>6, <4>4, AltDecodes DEF IsAlt
      <4>5. CASE IsPaste(head)
        BY <1>1, <2>1, <2>6, <4>5, PasteDecodes
      <4> QED BY <2>1, <2>6, <4>1, <4>2, <4>3, <4>4, <4>5 DEF Kind
    <3> QED BY <1>4, <2>2, <2>6, <3>1 DEF head
  <2>7. CASE IsBare(head) /\ Begins(from.bytes, head.bytes)
    <3>1. head.bytes = <<"esc">> /\ head.event = Key("esc") /\ IsEscape(head)
      BY <2>7 DEF IsBare, IsEscape
    <3>2. from.bytes = <<"esc">>
      <4>1. d = 1 /\ from.bytes[1] = "esc"
        BY <2>1, <2>3, <2>7, <3>1 DEF Begins
      <4> QED BY <2>3, <4>1
    <3>3. CASE from.deadline = "past"
      <4>1. Decode(from).event = Key("esc") /\ Took(from, 1, Decode(from).after)
        BY <1>1, <3>2, <3>3, BareDecodes
      <4>2. Len(head.bytes) = 1
        BY <3>1
      <4> QED BY <1>4, <2>2, <2>7, <3>1, <4>1, <4>2 DEF head
    <3>4. CASE from.deadline # "past"
      <4>1. /\ Decode(from).event = NoEvent /\ IsDecoder(Decode(from).after)
            /\ Decode(from).after.bytes = from.bytes
            /\ Decode(from).after.deadline = "ahead"
        BY <1>1, <3>2, <3>4, BareDecodes
      <4>2. DeadlineFits(Decode(from).after, keys)
        BY <1>4, <2>7, <4>1 DEF DeadlineFits, head
      <4> QED BY <4>1, <4>2
    <3> QED BY <3>3, <3>4
  <2>8. CASE /\ Begins(head.bytes, from.bytes) /\ d < Len(head.bytes)
             /\ head \in WholeKeys => from.bytes = <<>>
    <3>1. CASE from.bytes = <<>>
      BY <1>1, <1>2, <3>1
    <3>2. CASE from.bytes # <<>>
      <4>1. d >= 1 /\ Len(head.bytes) # 1
        <5>1. d # 0
          BY <2>3, <3>2, EmptySeq
        <5> DEFINE h == Len(head.bytes)
        <5>2. d < h /\ h \in Nat
          BY <2>2, <2>8
        <5> HIDE DEF d, h
        <5>3. d >= 1 /\ h # 1
          BY <2>3, <5>1, <5>2
        <5> QED BY <5>3 DEF h
      <4>2. IsWide(head) \/ IsSequence(head)
        <5>1. Len(head.bytes) # 1 /\ head \notin WholeKeys
          BY <2>8, <3>2, <4>1
        <5>2. ~IsByte(head)
          BY <5>1 DEF IsByte
        <5>3. ~IsBare(head)
          BY <5>1 DEF IsBare, IsEscape
        <5> QED BY <2>1, <5>1, <5>2, <5>3 DEF Kind
      <4>3. CASE IsSequence(head)
        <5>1. from.deadline # "past"
          BY <2>2, <2>3, <2>5, <2>8
        <5>2. /\ Decode(from).event = NoEvent /\ IsDecoder(Decode(from).after)
              /\ Decode(from).after.bytes = from.bytes
              /\ Decode(from).after.deadline = "ahead"
          BY <1>1, <2>8, <3>2, <4>3, <5>1, PartDecodes
        <5>3. DeadlineFits(Decode(from).after, keys)
          BY <1>4, <4>3, <5>2 DEF DeadlineFits, head
        <5> QED BY <5>2, <5>3
      <4>4. CASE IsWide(head)
        <5>1. Len(head.bytes) = 2 /\ head.bytes[1] = "lead"
          BY <4>4 DEF IsWide
        <5>2. d = 1
          <6>1. \A m \in Nat : m >= 1 /\ m < 2 => m = 1
            OBVIOUS
          <6> QED BY <2>3, <2>8, <4>1, <5>1, <6>1
        <5>3. from.bytes[1] = "lead"
          BY <2>8, <5>1, <5>2 DEF Begins
        <5>4. from.bytes = <<"lead">>
          BY <2>3, <5>2, <5>3
        <5>5. /\ Decode(from).event = NoEvent /\ IsDecoder(Decode(from).after)
              /\ Decode(from).after.bytes = from.bytes
              /\ Decode(from).after.deadline = "none"
          BY <1>1, <5>4, LeadDecodes
        <5>6. DeadlineFits(Decode(from).after, keys)
          BY <5>5 DEF DeadlineFits
        <5> QED BY <5>5, <5>6
      <4> QED BY <4>2, <4>3, <4>4
    <3> QED BY <3>1, <3>2
  <2> QED BY <2>1, <2>6, <2>7, <2>8
<1> QED BY <1>3, <1>4

-----------------------------------------------------------------------------
(* Every step leaves the keys that wait in their place. *)

\* The first key is taken with its bytes.
LEMMA TakenWaits ==
    ASSUME AllSent, NEW from, NEW rest, NEW keys, Waiting(from, rest, keys), keys # <<>>,
           Begins(from.bytes, keys[1].bytes),
           NEW after, Took(from, Len(keys[1].bytes), after)
    PROVE  Waiting(after, rest, Tail(keys))
<1> DEFINE n == Len(keys)
           size == Len(keys[1].bytes)
           d == Len(from.bytes)
           t == Len(rest)
           all == from.bytes \o rest
           tail == Tail(keys)
<1>1. /\ from.bytes \in Seq(Byte) /\ rest \in Seq(Byte) /\ keys \in Seq(UNION Keyboards)
      /\ d \in Nat /\ t \in Nat /\ HaveBytes(keys) /\ n \in Nat /\ n # 0 /\ n >= 1
  <2>1. from.bytes \in Seq(Byte) /\ rest \in Seq(Byte) /\ keys \in Seq(UNION Keyboards)
    BY DEF Waiting, IsDecoder
  <2>2. HaveBytes(keys) /\ n # 0 /\ n \in Nat
    BY <2>1, PendingBytes, EmptySeq
  <2> QED BY <2>1, <2>2
<1>2. size \in Nat /\ size <= d
  <2>1. 1 \in 1..n
    BY <1>1
  <2> QED BY <1>1, <2>1 DEF Begins, HaveBytes
<1>3. /\ tail \in Seq(UNION Keyboards) /\ Len(tail) = n - 1
      /\ \A k \in 1..(n - 1) : tail[k] = keys[k + 1]
  BY <1>1
<1>4. PICK at : Divides(at, keys, all)
  BY DEF Waiting
<1>5. PICK next : Divides(next, tail, SubSeq(all, size + 1, Len(all)))
  <2>1. all \in Seq(Byte)
    BY <1>1, Joined
  <2> QED BY <1>1, <1>4, <2>1, DividesTail
<1>6. SubSeq(all, size + 1, Len(all)) = after.bytes \o rest
  <2> DEFINE left == SubSeq(from.bytes, size + 1, d)
             a == SubSeq(all, size + 1, Len(all))
             b == left \o rest
  <2>1. /\ all \in Seq(Byte) /\ Len(all) = d + t
        /\ (\A k \in 1..d : all[k] = from.bytes[k]) /\ (\A k \in 1..t : all[d + k] = rest[k])
    BY <1>1, Joined
  <2>2. /\ left \in Seq(Byte) /\ Len(left) = d - size
        /\ \A k \in 1..(d - size) : left[k] = from.bytes[k + size]
    <3> HIDE DEF size
    <3> QED BY <1>1, <1>2
  <2> HIDE DEF all, left, size
  <2>3. /\ a \in Seq(Byte) /\ Len(a) = d + t - size
        /\ \A k \in 1..(d + t - size) : a[k] = all[k + size]
    BY <1>1, <1>2, <2>1
  <2>4. /\ b \in Seq(Byte) /\ Len(b) = d - size + t
        /\ (\A k \in 1..(d - size) : b[k] = left[k])
        /\ (\A k \in 1..t : b[(d - size) + k] = rest[k])
    <3>1. /\ b \in Seq(Byte) /\ Len(b) = Len(left) + t
          /\ (\A k \in 1..Len(left) : b[k] = left[k])
          /\ (\A k \in 1..t : b[Len(left) + k] = rest[k])
      BY <1>1, <2>2, Joined
    <3> HIDE DEF b, t
    <3> QED BY <2>2, <3>1
  <2> HIDE DEF a, b, d, t
  <2>5. ASSUME NEW k \in 1..(d + t - size) PROVE a[k] = b[k]
    <3>1. CASE k <= d - size
      <4>1. k \in 1..(d - size) /\ k + size \in 1..d
        BY <1>1, <1>2, <3>1
      <4> QED BY <2>1, <2>2, <2>3, <2>4, <4>1
    <3>2. CASE ~(k <= d - size)
      <4> DEFINE m == k - (d - size)
      <4>1. m \in 1..t /\ (d - size) + m = k /\ d + m = k + size
        BY <1>1, <1>2, <3>2
      <4> HIDE DEF m
      <4>2. a[k] = all[d + m] /\ b[k] = rest[m]
        BY <2>3, <2>4, <4>1
      <4> QED BY <2>1, <4>1, <4>2
    <3> QED BY <3>1, <3>2
  <2>6. Len(a) = Len(b) /\ Len(a) = d + t - size
    BY <1>1, <1>2, <2>3, <2>4
  <2>7. a = b
    BY <2>3, <2>4, <2>5, <2>6, SeqEqual
  <2> QED BY <2>7 DEF Took, a, b, left, d, size
<1>7. LastFits(tail, rest)
  <2>1. ASSUME NEW k \in 1..(n - 1), IsEscape(tail[k]) PROVE k = n - 1
    <3>1. k + 1 \in 1..n /\ IsEscape(keys[k + 1])
      BY <1>1, <1>3, <2>1
    <3>2. k + 1 = n
      BY <3>1 DEF Waiting, LastFits
    <3> HIDE DEF n
    <3> QED BY <1>1, <3>2
  <2>2. ASSUME tail # <<>>
        PROVE  /\ Len(rest) <= Len(tail[n - 1].bytes)
               /\ tail[n - 1] \in WholeKeys => rest = <<>> \/ rest = tail[n - 1].bytes
    <3>1. n - 1 # 0
      BY <1>3, <2>2, EmptySeq
    <3>2. n - 1 \in 1..(n - 1) /\ (n - 1) + 1 = n
      <4> HIDE DEF n
      <4> QED BY <1>1, <3>1
    <3>3. tail[n - 1] = keys[n]
      BY <1>3, <3>2
    <3> QED BY <3>3 DEF Waiting, LastFits
  <2> QED BY <1>3, <2>1, <2>2 DEF LastFits
<1>8. IsDecoder(after) /\ DeadlineFits(after, tail)
  BY DEF Took, DeadlineFits
<1> QED BY <1>1, <1>3, <1>5, <1>6, <1>7, <1>8 DEF Waiting

\* The decoder keeps what it has.
LEMMA KeptWaits ==
    ASSUME NEW from, NEW rest, NEW keys, Waiting(from, rest, keys),
           NEW after, IsDecoder(after), after.bytes = from.bytes, DeadlineFits(after, keys)
    PROVE  Waiting(after, rest, keys)
BY DEF Waiting

\* A key is typed.
LEMMA TypedWaits ==
    ASSUME AllSent, NEW from, NEW keys, Waiting(from, <<>>, keys),
           ~\E k \in DOMAIN keys : IsEscape(keys[k]), NEW key \in UNION Keyboards
    PROVE  Waiting(from, key.bytes, Append(keys, key))
<1> DEFINE n == Len(keys)
           more == Append(keys, key)
<1>1. /\ from.bytes \in Seq(Byte) /\ keys \in Seq(UNION Keyboards) /\ IsDecoder(from)
      /\ key.bytes \in Seq(Byte)
  BY DEF Waiting, IsDecoder, AllSent
<1>2. n \in Nat /\ HaveBytes(keys)
  BY <1>1, PendingBytes
<1>3. /\ more \in Seq(UNION Keyboards) /\ Len(more) = n + 1 /\ more[n + 1] = key /\ more # <<>>
      /\ \A k \in 1..n : more[k] = keys[k]
  BY <1>1, <1>2
<1>4. from.bytes \o <<>> = from.bytes
  BY <1>1, ConcatEmptySeq
<1>5. \E at : Divides(at, more, from.bytes \o key.bytes)
  <2>1. PICK at : Divides(at, keys, from.bytes)
    BY <1>4 DEF Waiting
  <2> QED BY <1>1, <1>2, <2>1, DividesAppend
<1>6. LastFits(more, key.bytes)
  <2>1. ASSUME NEW k \in 1..(n + 1), IsEscape(more[k]) PROVE k = n + 1
    <3> SUFFICES ASSUME k # n + 1 PROVE FALSE
      OBVIOUS
    <3>1. k \in 1..n
      <4> HIDE DEF n
      <4> QED BY <1>2
    <3> QED BY <1>1, <1>3, <2>1, <3>1
  <2>2. Len(key.bytes) <= Len(key.bytes)
    BY <1>1
  <2> QED BY <1>3, <2>1, <2>2 DEF LastFits
<1>7. DeadlineFits(from, more)
  <2>1. keys # <<>> => more[1] = keys[1]
    <3>1. keys # <<>> => 1 \in 1..n
      BY <1>1, <1>2, EmptySeq
    <3> QED BY <1>3, <3>1
  <2>2. DeadlineFits(from, keys) /\ from.deadline \in {"none", "ahead", "past"}
    BY <1>1 DEF Waiting, IsDecoder
  <2> HIDE DEF more
  <2>3. from.deadline # "none" => keys # <<>> /\ (IsSequence(more[1]) \/ IsBare(more[1]))
    BY <2>1, <2>2 DEF DeadlineFits
  <2>4. from.deadline = "past" => Len(more[1].bytes) <= Len(from.bytes)
    BY <2>1, <2>2, <2>3 DEF DeadlineFits
  <2> QED BY <1>3, <2>3, <2>4 DEF DeadlineFits
<1> QED BY <1>1, <1>3, <1>5, <1>6, <1>7 DEF Waiting

\* Some of the bytes are read, those of some keys at once.
LEMMA ReadWaits ==
    ASSUME AllSent, NEW from, NEW rest, NEW keys, Waiting(from, rest, keys),
           NEW count \in 1..Len(rest), keys[Len(keys)] \in WholeKeys => count = Len(rest)
    PROVE  Waiting([from EXCEPT !.bytes = @ \o SubSeq(rest, 1, count)],
                   SubSeq(rest, count + 1, Len(rest)), keys)
<1> DEFINE d == Len(from.bytes)
           t == Len(rest)
           read == SubSeq(rest, 1, count)
           left == SubSeq(rest, count + 1, t)
           longer == [from EXCEPT !.bytes = @ \o read]
<1>1. /\ IsDecoder(from) /\ from.bytes \in Seq(Byte) /\ rest \in Seq(Byte)
      /\ keys \in Seq(UNION Keyboards) /\ d \in Nat /\ t \in Nat /\ count \in Nat /\ count <= t
  BY DEF Waiting, IsDecoder
<1>2. /\ read \in Seq(Byte) /\ Len(read) = count /\ left \in Seq(Byte) /\ Len(left) = t - count
      /\ read \o left = rest
  <2>1. read \in Seq(Byte) /\ Len(read) = count
    BY <1>1
  <2>2. left \in Seq(Byte) /\ Len(left) = t - count
    BY <1>1
  <2>3. 1 \in 1..(t + 1) /\ count \in (1 - 1)..t /\ t \in count..t
    <3> HIDE DEF t
    <3> QED BY <1>1
  <2>4. read \o left = SubSeq(rest, 1, t)
    BY <1>1, <2>3, ConcatAdjacentSubSeq
  <2> QED BY <1>1, <2>1, <2>2, <2>4, SubSeqFull
<1> HIDE DEF read, left
<1>3. /\ IsDecoder(longer) /\ longer.bytes = from.bytes \o read
      /\ longer.deadline = from.deadline /\ Len(longer.bytes) = d + count
  <2>1. from.bytes \o read \in Seq(Byte) /\ Len(from.bytes \o read) = d + count
    BY <1>1, <1>2, Joined
  <2> QED BY <1>1, <2>1 DEF IsDecoder
<1> HIDE DEF longer
<1>4. longer.bytes \o left = from.bytes \o rest
  <2>1. (from.bytes \o read) \o left = from.bytes \o (read \o left)
    <3>1. from.bytes \in Seq(Byte) /\ read \in Seq(Byte) /\ left \in Seq(Byte)
      BY <1>1, <1>2
    <3> QED BY ONLY <3>1, JoinedTwice
  <2> QED BY <1>2, <1>3, <2>1
<1>5. LastFits(keys, left)
  <2>1. Len(left) <= t
    <3> HIDE DEF t
    <3> QED BY <1>1, <1>2
  <2>2. keys[Len(keys)] \in WholeKeys => left = <<>>
    BY <1>1, <1>2, EmptySeq
  <2>3. keys # <<>> => Len(left) <= Len(keys[Len(keys)].bytes)
    <3> SUFFICES ASSUME keys # <<>> PROVE Len(left) <= Len(keys[Len(keys)].bytes)
      OBVIOUS
    <3>1. t <= Len(keys[Len(keys)].bytes)
      BY DEF Waiting, LastFits
    <3>2. Len(keys) \in 1..Len(keys)
      BY <1>1, EmptySeq
    <3>3. Len(keys[Len(keys)].bytes) \in Nat
      BY <1>1, <3>2, PendingBytes DEF HaveBytes
    <3>4. \A a, b, c \in Nat : a <= b /\ b <= c => a <= c
      OBVIOUS
    <3>5. Len(left) \in Nat
      BY <1>2
    <3> QED BY <1>1, <2>1, <3>1, <3>3, <3>4, <3>5
  <2> QED BY <2>2, <2>3 DEF Waiting, LastFits
<1>6. DeadlineFits(longer, keys)
  <2>1. DeadlineFits(from, keys)
    BY DEF Waiting
  <2>2. ASSUME from.deadline = "past" PROVE Len(keys[1].bytes) <= Len(longer.bytes)
    <3>1. Len(keys[1].bytes) <= d /\ keys # <<>>
      BY <2>1, <2>2 DEF DeadlineFits
    <3>2. 1 \in 1..Len(keys)
      BY <1>1, <3>1, EmptySeq
    <3>3. Len(keys[1].bytes) \in Nat
      BY <1>1, <3>2, PendingBytes DEF HaveBytes
    <3>4. \A a, b, c \in Nat : a <= b => a <= b + c
      OBVIOUS
    <3> QED BY <1>1, <1>3, <3>1, <3>3, <3>4
  <2> QED BY <1>3, <2>1, <2>2 DEF DeadlineFits
<1> QED BY <1>1, <1>2, <1>3, <1>4, <1>5, <1>6 DEF Waiting, longer, left, read

\* Time passes while nothing more is read, but for the text of a paste.
LEMMA PassedWaits ==
    ASSUME AllSent, NEW from, NEW rest, NEW keys, Waiting(from, rest, keys),
           from.deadline = "ahead",
           rest = <<>> \/ "paste" \in DOMAIN keys[Len(keys)].event
    PROVE  Waiting([from EXCEPT !.deadline = "past"], rest, keys)
<1> DEFINE head == keys[1]
           past == [from EXCEPT !.deadline = "past"]
<1>1. /\ IsDecoder(from) /\ from.bytes \in Seq(Byte) /\ rest \in Seq(Byte)
      /\ keys \in Seq(UNION Keyboards)
  BY DEF Waiting, IsDecoder
<1>2. keys # <<>> /\ (IsSequence(head) \/ IsBare(head))
  BY DEF Waiting, DeadlineFits
<1>3. IsDecoder(past) /\ past.bytes = from.bytes /\ past.deadline = "past"
  BY <1>1 DEF IsDecoder
<1>4. "paste" \notin DOMAIN head.event
  <2>1. CASE IsBare(head)
    BY <2>1 DEF IsBare, Key
  <2>2. CASE IsSequence(head)
    <3> DEFINE s == [bytes |-> head.bytes, event |-> head.event]
    <3>1. s \in Sequences /\ s.event = head.event
      BY <2>2 DEF IsSequence
    <3> HIDE DEF s
    <3>2. s = Named(s.bytes[2], s.bytes[3])
      BY <3>1, SequenceBytes
    <3>3. \A second, third : "paste" \notin DOMAIN Named(second, third).event
      BY DEF Named, Modified
    <3> QED BY <3>1, <3>2, <3>3
  <2> QED BY <1>2, <2>1, <2>2
<1>5. Len(head.bytes) <= Len(from.bytes)
  <2> SUFFICES ASSUME ~(Len(head.bytes) <= Len(from.bytes)) PROVE FALSE
    OBVIOUS
  <2>1. Len(keys) = 1
    BY <1>2, HeadArrives DEF Begins
  <2>2. rest = <<>>
    BY <1>4, <2>1
  <2>3. from.bytes \o rest = from.bytes
    BY <1>1, <2>2, ConcatEmptySeq
  <2>4. PICK at : Divides(at, keys, from.bytes)
    BY <2>3 DEF Waiting
  <2>5. Len(from.bytes) = Len(head.bytes)
    <3>1. HaveBytes(keys) /\ Len(keys) # 0
      BY <1>1, <2>1, PendingBytes
    <3> QED BY <1>1, <2>1, <2>4, <3>1, DividesHead
  <2> QED BY <1>1, <2>5
<1> HIDE DEF past
<1>6. DeadlineFits(past, keys)
  BY <1>2, <1>3, <1>5 DEF DeadlineFits
<1> QED BY <1>3, <1>6, KeptWaits DEF past

\* Nothing was typed, or the editor took it.
LEMMA EmptyWaits == Waiting(NewDecoder, <<>>, <<>>)
<1> DEFINE at == [k \in 0..0 |-> 0]
           none == <<>>
<1>1. /\ none \in Seq(Byte) /\ none \in Seq(UNION Keyboards) /\ Len(none) = 0 /\ none \o none = none
  BY ConcatEmptySeq
<1>2. /\ IsDecoder(NewDecoder) /\ NewDecoder.bytes = none /\ NewDecoder.deadline = "none"
  BY <1>1 DEF IsDecoder, NewDecoder
<1>3. Divides(at, none, none)
  BY <1>1 DEF Divides
<1> HIDE DEF at
<1>4. LastFits(none, none) /\ DeadlineFits(NewDecoder, none)
  BY <1>1, <1>2 DEF LastFits, DeadlineFits
<1> QED BY <1>1, <1>2, <1>3, <1>4 DEF Waiting

\* A call of next_event.
LEMMA PolledWaits ==
    ASSUME AllSent, Waiting(decoder, transit, pending)
    PROVE  /\ Decoded.event = NoEvent => Waiting(Decoded.after, transit, pending)
           /\ Decoded.event # NoEvent =>
                /\ pending # <<>> /\ Decoded.event = Head(pending).event
                /\ Waiting(Decoded.after, transit, Awaited)
<1>1. pending \in Seq(UNION Keyboards)
  BY DEF Waiting
<1>2. CASE /\ pending # <<>> /\ Decode(decoder).event = pending[1].event
           /\ pending[1].event # NoEvent /\ Begins(decoder.bytes, pending[1].bytes)
           /\ Took(decoder, Len(pending[1].bytes), Decode(decoder).after)
  <2>1. Waiting(Decode(decoder).after, transit, Tail(pending))
    BY <1>2, TakenWaits
  <2>2. Head(pending) = pending[1] /\ Awaited = Tail(pending)
    BY <1>1, <1>2 DEF Awaited
  <2> QED BY <1>2, <2>1, <2>2 DEF Decoded
<1>3. CASE /\ Decode(decoder).event = NoEvent /\ IsDecoder(Decode(decoder).after)
           /\ Decode(decoder).after.bytes = decoder.bytes
           /\ DeadlineFits(Decode(decoder).after, pending)
  <2>1. Waiting(Decode(decoder).after, transit, pending)
    BY <1>3, KeptWaits
  <2> QED BY <1>3, <2>1 DEF Decoded
<1> QED BY <1>2, <1>3, HeadDecodes

LEMMA InitKeys == Init => KeysInv
BY EmptyWaits DEF Init, KeysInv

LEMMA StepKeys ==
    ASSUME AllSent, KeysInv, [Next]_vars
    PROVE  KeysInv'
<1>1. keyboard \in Keyboards /\ Waiting(decoder, transit, pending)
  BY DEF KeysInv
<1>2. SUFFICES keyboard' \in Keyboards /\ Waiting(decoder', transit', pending')
  BY DEF KeysInv, Waiting, Divides, LastFits, DeadlineFits, IsDecoder
<1>3. CASE Type
  <2>1. PICK key \in keyboard : pending' = Append(pending, key) /\ transit' = key.bytes
    BY <1>3 DEF Type
  <2>2. key \in UNION Keyboards
    BY <1>1
  <2>3. Waiting(decoder, key.bytes, Append(pending, key))
    BY <1>1, <1>3, <2>2, TypedWaits DEF Type
  <2> QED BY <1>1, <1>3, <2>1, <2>3 DEF Type
<1>4. CASE Arrive
  <2>1. PICK count \in 1..Len(transit) :
          /\ Last(pending) \in WholeKeys => count = Len(transit)
          /\ decoder' = [decoder EXCEPT !.bytes = @ \o SubSeq(transit, 1, count)]
          /\ transit' = SubSeq(transit, count + 1, Len(transit))
    BY <1>4 DEF Arrive
  <2>2. Waiting(decoder', transit', pending)
    BY <1>1, <2>1, ReadWaits DEF Last
  <2> QED BY <1>1, <1>4, <2>2 DEF Arrive
<1>5. CASE Pass
  <2>1. Waiting(decoder', transit, pending)
    BY <1>1, <1>5, PassedWaits DEF Pass, Last
  <2> QED BY <1>1, <1>5, <2>1 DEF Pass
<1>6. CASE Poll
  <2>1. /\ decoder' = Decoded.after /\ UNCHANGED <<keyboard, transit>>
        /\ IF Decoded.event = NoEvent THEN pending' = pending ELSE pending' = Awaited
    BY <1>6 DEF Poll
  <2> QED BY <1>1, <2>1, PolledWaits
<1>7. CASE OpenEditor
  <2>1. /\ UNCHANGED keyboard
        /\ \/ /\ Decoded.event # NoEvent /\ decoder' = Decoded.after
              /\ pending' = Awaited /\ transit' = transit
           \/ decoder' = NewDecoder /\ pending' = <<>> /\ transit' = <<>>
    BY <1>7 DEF OpenEditor
  <2> QED BY <1>1, <2>1, PolledWaits, EmptyWaits
<1>8. CASE RunEnds
  BY <1>1, <1>8 DEF RunEnds, terminalVars
<1>9. CASE UNCHANGED vars
  BY <1>1, <1>9 DEF vars, terminalVars
<1> QED BY <1>3, <1>4, <1>5, <1>6, <1>7, <1>8, <1>9 DEF Next

\* However the bytes of the keys are split, read and waited for, what is decoded
\* next is the oldest key that was not decoded yet: for any keyboards of such
\* keys, with the pastes and the Alt keys read at once.
THEOREM KeysInOrder == AreSent(Keyboards, WholeKeys) => (Spec => []EventsAreKeys)
<1> SUFFICES ASSUME AreSent(Keyboards, WholeKeys) PROVE Spec => []EventsAreKeys
  OBVIOUS
<1>1. AllSent
  BY SentKeys
<1>2. KeysInv /\ [Next]_vars => KeysInv'
  BY <1>1, StepKeys
<1>3. KeysInv => EventsAreKeys
  BY <1>1, PolledWaits DEF KeysInv, EventsAreKeys
<1> QED BY InitKeys, <1>2, <1>3, PTL DEF Spec

=============================================================================
