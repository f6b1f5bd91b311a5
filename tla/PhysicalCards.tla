---------------------------- MODULE PhysicalCards ----------------------------
(***************************************************************************)
(* Physical cards of the wallet service: the inventory, the tasks that     *)
(* print, hand out and report cards, and what both do to passes.  A card   *)
(* is its number; the reader's UID and the vendor are left out.            *)
(***************************************************************************)
EXTENDS WalletPasses

CONSTANTS Cards, Tasks

VARIABLES cards,  \* Cards -> [status, pass, task]; "absent": not in the inventory
          tasks   \* Tasks -> [type, status, pass, inv, num]

cardVars == <<cards, tasks>>

Nil == "nil"
InventoryStatus == {"available", "reserved", "issued", "lost", "frozen", "scrapped"}
CardType == [status: InventoryStatus \cup {"absent"}, pass: Passes \cup {Nil}, task: Tasks \cup {Nil}]
TaskKind == {"issue", "reissue", "loss_report"}
TaskStatus == {"queued", "printing", "ready", "issued", "reported_lost", "cancelled"}
TaskType == [type: TaskKind \cup {Nil}, status: TaskStatus, pass: Passes \cup {Nil},
             inv: Cards \cup {Nil}, num: Cards \cup {Nil}]

NoTask == [type |-> Nil, status |-> "queued", pass |-> Nil, inv |-> Nil, num |-> Nil]
Unbound(s) == [status |-> s, pass |-> Nil, task |-> Nil]
BoundTo(s, t) == [status |-> s, pass |-> tasks[t].pass, task |-> t]

CardsInit == /\ cards \in [Cards -> {Unbound(s) : s \in InventoryStatus \cup {"absent"}}]
             /\ tasks = [t \in Tasks |-> NoTask]

-----------------------------------------------------------------------------
(* The inventory.                                                          *)

\* A new card, also one that comes with an import, may have any status.
CreateInventoryItem(c, s) ==
    /\ Request /\ cards[c].status = "absent"
    /\ cards' = [cards EXCEPT ![c] = Unbound(s)]
    /\ UNCHANGED <<passes, template, tasks>>

\* An import only touches known cards that are available.
ImportInventory(c, s) ==
    /\ Request /\ cards[c].status = "available"
    /\ cards' = [cards EXCEPT ![c].status = s]
    /\ UNCHANGED <<passes, template, tasks>>

\* A scan adds a card the inventory does not know; of a known one it changes
\* what is left out here.
ScanInventory(c) == CreateInventoryItem(c, "available")

CanTransitInventoryStatus(current, next) ==
    \/ current = next
    \/ current = "available" /\ next \in {"frozen", "scrapped"}
    \/ current = "frozen"    /\ next \in {"available", "scrapped"}
    \/ current = "lost"      /\ next = "scrapped"

\* available, frozen and scrapped cards are taken from their pass and task.
ApplyInventoryStatusTransition(card, next) ==
    IF card.status # next /\ next \in {"available", "frozen", "scrapped"}
    THEN Unbound(next) ELSE [card EXCEPT !.status = next]

\* A batch is checked as a whole before any card changes.
BatchUpdateInventoryStatus(S, next) ==
    /\ Request
    /\ \A c \in S : CanTransitInventoryStatus(cards[c].status, next)
    /\ cards' = [c \in Cards |-> IF c \in S THEN ApplyInventoryStatusTransition(cards[c], next)
                                 ELSE cards[c]]
    /\ UNCHANGED <<passes, template, tasks>>

UpdateInventoryStatus(c, next) == BatchUpdateInventoryStatus({c}, next)

-----------------------------------------------------------------------------
(* Tasks.                                                                  *)

\* c: the card the request names, Nil when it names none.  A card that is
\* not in the inventory is only a number on the task.
CreatePhysicalCardTask(t, type, p, c) ==
    /\ Request /\ tasks[t].type = Nil
    /\ passes[p].status # "none" /\ passes[p].user
    /\ c # Nil => cards[c].status \in {"absent", "available"}
    /\ LET inv == IF c # Nil /\ cards[c].status # "absent" THEN c ELSE Nil
       IN  /\ tasks' = [tasks EXCEPT ![t] = [type |-> type, status |-> "queued", pass |-> p,
                                             inv |-> inv, num |-> c]]
           /\ cards' = IF inv = Nil THEN cards
                       ELSE [cards EXCEPT ![inv] = [status |-> "reserved", pass |-> p, task |-> t]]
    /\ UNCHANGED <<passes, template>>

\* A task may be set to the status it has: the effects happen again.
CanTransitTaskStatus(type, current, next) ==
    \/ current = next
    \/ /\ type \in {"issue", "reissue"}
       /\ \/ current = "queued"   /\ next \in {"printing", "ready", "issued", "cancelled"}
          \/ current = "printing" /\ next \in {"ready", "issued", "cancelled"}
          \/ current = "ready"    /\ next \in {"issued", "cancelled"}
    \/ type = "loss_report" /\ current = "queued" /\ next \in {"reported_lost", "cancelled"}

\* By inventory id when the task has one, else by card number.
InventoryOf(inv, num) ==
    IF inv # Nil THEN {inv} ELSE {c \in Cards : c = num /\ cards[c].status # "absent"}

\* A reissue that re-activates whatever the pass has become.
PassAfter_Bug(pass, type, next) ==
    IF next = "issued" /\ type = "reissue" THEN [pass EXCEPT !.status = "active"] ELSE pass

PassAfter(pass, type, next) ==
    CASE next = "reported_lost" /\ CanTransitPassStatus(pass.status, "suspended")
            -> [pass EXCEPT !.status = "suspended"]
      [] next = "issued" /\ type = "reissue" /\ CanTransitPassStatus(pass.status, "active")
            -> [pass EXCEPT !.status = "active"]
      [] OTHER -> pass

CardAfter(card, t, next) ==
    CASE next = "issued"          -> BoundTo("issued", t)
      [] next = "reported_lost"   -> BoundTo("lost", t)
      [] next = "cancelled"       -> Unbound("available")
      [] next \in {"queued", "printing", "ready"} /\ card.status = "available"
                                  -> BoundTo("reserved", t)
      [] OTHER                    -> card

\* c: a card number in the request, Nil when there is none.
UpdatePhysicalCardTaskStatus(t, next, c) ==
    LET task == tasks[t]
        num  == IF c = Nil THEN task.num ELSE c
        inv  == InventoryOf(task.inv, num)
    IN  /\ Request /\ task.type # Nil
        /\ CanTransitTaskStatus(task.type, task.status, next)
        /\ tasks' = [tasks EXCEPT ![t].status = next, ![t].num = num]
        /\ passes' = [passes EXCEPT ![task.pass] = PassAfter(@, task.type, next)]
        /\ cards' = [x \in Cards |-> IF x \in inv THEN CardAfter(cards[x], t, next) ELSE cards[x]]
        /\ UNCHANGED template

CardRequest ==
    \/ \E c \in Cards : ScanInventory(c)
    \/ \E c \in Cards, s \in InventoryStatus :
          CreateInventoryItem(c, s) \/ ImportInventory(c, s) \/ UpdateInventoryStatus(c, s)
    \/ \E S \in SUBSET Cards \ {{}}, s \in InventoryStatus : BatchUpdateInventoryStatus(S, s)
    \/ \E t \in Tasks, c \in Cards \cup {Nil} :
          \/ \E type \in TaskKind, p \in Passes : CreatePhysicalCardTask(t, type, p, c)
          \/ \E s \in TaskStatus : UpdatePhysicalCardTaskStatus(t, s, c)
=============================================================================
