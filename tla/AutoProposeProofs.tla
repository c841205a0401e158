-------------------------- MODULE AutoProposeProofs --------------------------
(***************************************************************************)
(* For any number of entries, symbols, groups and faults, and any           *)
(* settings: outside the pass that makes it a paper-only proposal is open   *)
(* only when its withdrawal failed or the process died; none is ordered in  *)
(* a symbol of the eToro account but one taken up after the check; in a     *)
(* single thread the paper-only entries that have not gone astray leave the *)
(* day's last trades and the last entries of each group and, while no trade *)
(* stream writes rows beside the pass, the last places of paper's book, and *)
(* stay within MAX_OPEN_PAPER_ONLY.                                         *)
(***************************************************************************)
EXTENDS AutoPropose, FiniteSetTheorems, WellFoundedInduction, TLAPS

Open == {"pending", "approved"}
\* The steps of a pass that has a proposal in hand.
InHand == {"auto", "enqueue", "process", "withdraw"}

EntryRow == [symbol: Symbols \cup {None}, only: BOOLEAN,
             status: Open \cup {"none", "executed", "closed"}, item: {"none", "queued", "blocked"},
             row: {"none", "submitted", "filled", "dead", "failed"},
             at: {"none", "working", "held", "gone"}, today: BOOLEAN, astray: BOOLEAN]

\* An open proposal has a symbol and no row but a failed one's; the order of a paper-only entry
\* that has not gone astray has a row, which unless failed says that it works and is of today.
EntryOK(e) ==
    /\ e \in EntryRow
    /\ e.status \in Open => e.symbol # None /\ e.row \in {"none", "failed"}
    /\ e.row # "none" => e.symbol # None
    /\ e.only /\ ~e.astray =>
         /\ e.at \in Live => e.row \in {"submitted", "filled", "failed"}
         /\ e.at = "working" /\ e.row # "failed" => e.row = "submitted" /\ e.today

\* The later rows of a symbol: each of today's is followed by rows of today, and of two rows of a
\* symbol one is the later.
AgesOK(nw, es) ==
    /\ nw \in [Ids -> SUBSET Ids]
    /\ \A i, j \in Ids : j \in nw[i] =>
         /\ es[i].row # "none" /\ es[j].row # "none" /\ es[i].symbol = es[j].symbol
         /\ i \notin nw[j] /\ nw[j] \subseteq nw[i]
         /\ es[i].today => es[j].today
    /\ \A i, j \in Ids : i # j /\ es[i].row # "none" /\ es[j].row # "none"
                           /\ es[i].symbol = es[j].symbol => j \in nw[i] \/ i \in nw[j]

PassRow == [pc: InHand \cup {"idle", "next", "guard", "rows", "create"}, onlyLeft: BOOLEAN,
            existing: SUBSET Symbols, free: (SUBSET Symbols) \cup {None},
            book: [trades: Nat, held: SUBSET Symbols] \cup {None},
            fits: (SUBSET Symbols) \cup {None}, made: Nat, symbol: Symbols \cup {None},
            only: BOOLEAN, id: Ids \cup {None}, raised: BOOLEAN]

\* A pass names a proposal exactly while it has it in hand, and knows if it is paper-only.
PassOK(p, es) ==
    /\ p \in PassRow
    /\ p.pc \in InHand => p.id # None /\ (es[p.id].only => p.only)
    /\ p.pc \notin InHand => p.id = None
    /\ p.pc \in {"guard", "rows", "create"} => p.symbol # None
    /\ p.pc = "rows" => p.book \in [trades: Nat, held: SUBSET Symbols]

GateRow == [id: Ids \cup {None}, pc: {"free", "risk", "order"}, by: Threads \cup {None},
            adopted: BOOLEAN]

\* The entry under the lock is still queued and has no row.
GateOK(g, es) ==
    /\ g \in GateRow
    /\ g.id # None => es[g.id].row = "none" /\ es[g.id].item = "queued" /\ es[g.id].symbol # None

TypesOK ==
    /\ entry \in [Ids -> EntryRow] /\ \A i \in Ids : EntryOK(entry[i])
    /\ AgesOK(newer, entry) /\ GateOK(gate, entry)
    /\ pass \in [Threads -> PassRow] /\ \A c \in Threads : PassOK(pass[c], entry)

\* A paper-only entry that may still be ordered, and has not gone astray, is in the hands of its
\* pass.
Waits(es, g, i) == es[i].only /\ ~es[i].astray /\ (es[i].status \in Open \/ g.id = i)
Handled(i) == Waits(entry, gate, i) => \E c \in Threads : pass[c].id = i /\ pass[c].pc \in InHand

WaitInv == TypesOK /\ \A i \in Ids : Handled(i)

-----------------------------------------------------------------------------
(* One write of an entry *)

LEMMA NoEntryFacts ==
    /\ NoEntry.symbol = None /\ NoEntry.only = FALSE /\ NoEntry.status = "none"
    /\ NoEntry.item = "none" /\ NoEntry.row = "none" /\ NoEntry.at = "none" /\ NoEntry.today = FALSE
    /\ NoEntry.astray = FALSE
    /\ NoEntry \in EntryRow /\ EntryOK(NoEntry)
BY DEF NoEntry, EntryRow, EntryOK, Open, Live

LEMMA NoPassFacts ==
    /\ NoPass.pc = "idle" /\ NoPass.free = None /\ NoPass.book = None /\ NoPass.fits = None
    /\ NoPass.id = None /\ NoPass.only = FALSE /\ NoPass.symbol = None
    /\ NoPass.made = 0 /\ NoPass.raised = FALSE /\ NoPass.onlyLeft = FALSE /\ NoPass.existing = {}
    /\ NoPass \in PassRow
BY DEF NoPass, PassRow, InHand

LEMMA NoGateFacts ==
    NoGate \in GateRow /\ NoGate.id = None /\ NoGate.adopted = FALSE /\ \A es : GateOK(NoGate, es)
BY DEF NoGate, GateRow, GateOK

\* Become keeps an entry or gives its id back, but not while it is queued.
LEMMA BecomeFacts ==
    ASSUME NEW es, Become(es)
    PROVE  /\ entry' = [i \in Ids |-> entry'[i]]
           /\ \A i \in Ids : /\ entry'[i] \in {es[i], NoEntry}
                             /\ es[i].item = "queued" => entry'[i] = es[i]
BY DEF Become, Settled

LEMMA SetFacts ==
    ASSUME TypesOK, NEW i \in Ids, NEW e, Set(i, e)
    PROVE  /\ entry' = [j \in Ids |-> entry'[j]]
           /\ entry'[i] \in {e, NoEntry} /\ (e.item = "queued" => entry'[i] = e)
           /\ \A j \in Ids \ {i} : /\ entry'[j] \in {entry[j], NoEntry}
                                   /\ entry[j].item = "queued" => entry'[j] = entry[j]
<1> DEFINE es == [entry EXCEPT ![i] = e]
<1>1. es[i] = e /\ \A j \in Ids \ {i} : es[j] = entry[j]
  BY DEF TypesOK
<1>2. Become(es)
  BY DEF Set
<1> HIDE DEF es
<1> QED BY <1>1, <1>2, BecomeFacts

\* A write that is not an order keeps every row in its symbol and its day.
Rowed(e, f) ==
    /\ f.row = "none" <=> e.row = "none"
    /\ f.row # "none" => f.symbol = e.symbol /\ f.today = e.today

AgesStep ==
    /\ AgesOK(newer', entry')
    /\ \A i \in Ids : entry'[i].at \in Live => newer[i] \subseteq newer'[i]

LEMMA BecomeAges ==
    ASSUME TypesOK, NEW es, Become(es), \A j \in Ids : es[j].row = "none" <=> entry[j].row = "none",
           \A j \in Ids : es[j].row # "none" => es[j].symbol = entry[j].symbol,
           \/ \A j \in Ids : es[j].row # "none" => es[j].today = entry[j].today
           \/ \A j \in Ids : ~es[j].today
    PROVE  AgesStep
<1>1. AgesOK(newer, entry)
  BY DEF TypesOK
<1>2. /\ newer' = [i \in Ids |-> {j \in newer[i] : ~Settled(es, i) /\ ~Settled(es, j)}]
      /\ \A i \in Ids : entry'[i] = IF Settled(es, i) THEN NoEntry ELSE es[i]
  BY DEF Become
<1>3. \A i \in Ids : es[i].at \in Live => ~Settled(es, i) /\ \A j \in newer[i] : ~Settled(es, j)
  BY <1>1 DEF Settled, AgesOK
<1>4. \A i, j \in Ids : j \in newer'[i] => j \in newer[i] /\ entry'[i] = es[i] /\ entry'[j] = es[j]
  BY <1>2
<1>5. \A i \in Ids : entry'[i].row # "none" => ~Settled(es, i) /\ entry'[i] = es[i]
  BY <1>2, NoEntryFacts
<1> DEFINE Off(i) == Settled(es, i)
<1>6. newer' \in [Ids -> SUBSET Ids]
  BY <1>1, <1>2 DEF AgesOK
<1>7. ASSUME NEW i \in Ids, NEW j \in Ids, j \in newer'[i]
      PROVE  /\ entry'[i].row # "none" /\ entry'[j].row # "none" /\ entry'[i].symbol = entry'[j].symbol
             /\ i \notin newer'[j] /\ newer'[j] \subseteq newer'[i]
             /\ entry'[i].today => entry'[j].today
  <2>1. j \in newer[i] /\ entry'[i] = es[i] /\ entry'[j] = es[j] /\ ~Off(i) /\ ~Off(j)
    BY <1>2, <1>7
  <2>2. /\ entry[i].row # "none" /\ entry[j].row # "none" /\ entry[i].symbol = entry[j].symbol
        /\ i \notin newer[j] /\ newer[j] \subseteq newer[i]
        /\ entry[i].today => entry[j].today
    BY <1>1, <2>1 DEF AgesOK
  <2>3. newer'[j] = {k \in newer[j] : ~Off(j) /\ ~Off(k)} /\ newer'[i] = {k \in newer[i] : ~Off(i) /\ ~Off(k)}
    BY <1>2
  <2> HIDE DEF Off
  <2>4. i \notin newer'[j] /\ newer'[j] \subseteq newer'[i]
    BY <2>1, <2>2, <2>3
  <2>5. entry'[i].today => entry'[j].today
    BY <2>1, <2>2
  <2> QED BY <2>1, <2>2, <2>4, <2>5
<1>8. ASSUME NEW i \in Ids, NEW j \in Ids, i # j, entry'[i].row # "none", entry'[j].row # "none",
             entry'[i].symbol = entry'[j].symbol
      PROVE  j \in newer'[i] \/ i \in newer'[j]
  <2>1. /\ entry'[i] = es[i] /\ entry'[j] = es[j] /\ ~Off(i) /\ ~Off(j)
    BY <1>5, <1>8
  <2>2. j \in newer[i] \/ i \in newer[j]
    BY <1>1, <1>8, <2>1 DEF AgesOK
  <2> QED BY <1>2, <2>1, <2>2
<1>9. ASSUME NEW i \in Ids, entry'[i].at \in Live PROVE newer[i] \subseteq newer'[i]
  <2>1. es[i].at \in Live
    BY <1>2, <1>9, NoEntryFacts DEF Live
  <2> QED BY <1>2, <1>3, <2>1
<1> QED BY <1>6, <1>7, <1>8, <1>9 DEF AgesStep, AgesOK

LEMMA SetAges ==
    ASSUME TypesOK, NEW i \in Ids, NEW e, Set(i, e), Rowed(entry[i], e)
    PROVE  AgesStep
<1> DEFINE es == [entry EXCEPT ![i] = e]
<1>1. es[i] = e /\ \A j \in Ids \ {i} : es[j] = entry[j]
  BY DEF TypesOK
<1>2. Become(es)
  BY DEF Set
<1> HIDE DEF es
<1>3. \A j \in Ids : Rowed(entry[j], es[j])
  BY <1>1 DEF Rowed
<1> QED BY <1>2, <1>3, BecomeAges DEF Rowed

\* No paper-only entry is opened, ordered or brought back to its pass.
Shut(e, f) ==
    \/ f = NoEntry
    \/ /\ f.only = e.only /\ (f.only => f.symbol = e.symbol) /\ (e.astray => f.astray)
       /\ f.row = "none" => e.row = "none"
       /\ f.status \in Open /\ f.only => e.status \in Open

\* No pass is between its two reads.
NoRows == \A c \in Threads : pass[c].pc # "rows"

\* Nothing of the entry is counted that was not: it is not placed.
Uncounted(e, f) ==
    \/ f.row = "none"
    \/ /\ f.symbol = e.symbol /\ (f.today => e.today)
       /\ e.today /\ f.only /\ ~f.astray /\ f.row = "submitted" => f.today \/ NoRows
       /\ f.at \in Live => e.at \in Live
       /\ \/ f.row = e.row
          \/ Watched /\ e.row = "submitted" /\ f.row \in {"filled", "dead"}

Later(e, f) == Shut(e, f) /\ Uncounted(e, f) /\ (f.at = "working" => e.at = "working")

\* Only an approved proposal comes under the lock.
GateStep ==
    /\ GateOK(gate', entry')
    /\ \A j \in Ids : gate'.id = j => gate.id = j \/ entry[j].status = "approved"

Shuts == /\ entry' \in [Ids -> EntryRow]
         /\ \A j \in Ids : EntryOK(entry'[j]) /\ Shut(entry[j], entry'[j])
         /\ AgesStep /\ GateStep
Lives == Shuts /\ \A j \in Ids : Later(entry[j], entry'[j])

\* The lock is given back, kept, or taken for entry i, which is written as e.
GateMoves(i, e) ==
    \/ gate' = NoGate
    \/ /\ gate' \in GateRow /\ gate'.id = gate.id
       /\ gate.id = i => e.item = "queued" /\ e.symbol = entry[i].symbol
    \/ /\ gate' \in GateRow /\ gate'.id = i /\ entry[i].status = "approved"
       /\ e.item = "queued" /\ e.row = "none" /\ e.symbol = entry[i].symbol

LEMMA Same == \A e : Later(e, e)
BY DEF Later, Shut, Uncounted

LEMMA GateSet ==
    ASSUME TypesOK, AutoProposeConstants, NEW i \in Ids, NEW e, Set(i, e), Rowed(entry[i], e),
           GateMoves(i, e)
    PROVE  GateStep
<1>1. /\ GateOK(gate, entry) /\ None \notin Ids
      /\ entry[i].status \in Open => entry[i].symbol # None
  BY DEF TypesOK, EntryOK, AutoProposeConstants
<1>2. CASE gate' = NoGate
  BY <1>1, <1>2, NoGateFacts DEF GateStep
<1>3. CASE /\ gate' \in GateRow /\ gate'.id = gate.id
           /\ gate.id = i => e.item = "queued" /\ e.symbol = entry[i].symbol
  <2>1. ASSUME gate.id # None
        PROVE  /\ entry'[gate.id].row = "none" /\ entry'[gate.id].item = "queued"
               /\ entry'[gate.id].symbol # None
    <3>1. /\ gate.id \in Ids /\ entry[gate.id].row = "none" /\ entry[gate.id].item = "queued"
          /\ entry[gate.id].symbol # None
      BY <1>1, <2>1 DEF GateOK, GateRow
    <3>2. CASE gate.id = i
      <4>1. entry'[i] = e /\ e.row = "none"
        BY <1>3, <3>1, <3>2, SetFacts DEF Rowed
      <4> QED BY <1>3, <3>1, <3>2, <4>1
    <3>3. CASE gate.id # i
      BY <3>1, <3>3, SetFacts
    <3> QED BY <3>2, <3>3
  <2> QED BY <1>3, <2>1 DEF GateStep, GateOK
<1>4. CASE /\ gate' \in GateRow /\ gate'.id = i /\ entry[i].status = "approved"
           /\ e.item = "queued" /\ e.row = "none" /\ e.symbol = entry[i].symbol
  BY <1>1, <1>4, SetFacts DEF GateStep, GateOK, Open
<1> QED BY <1>2, <1>3, <1>4 DEF GateMoves

LEMMA LivesSet ==
    ASSUME TypesOK, AutoProposeConstants, NEW i \in Ids, NEW e, Set(i, e), EntryOK(e),
           Later(entry[i], e), Rowed(entry[i], e), GateMoves(i, e)
    PROVE  Lives
<1>1. ASSUME NEW j \in Ids PROVE EntryOK(entry'[j]) /\ Later(entry[j], entry'[j])
  <2>1. entry'[j] \in {entry[j], NoEntry} \/ (j = i /\ entry'[j] \in {e, NoEntry})
    BY SetFacts
  <2>2. EntryOK(entry[j])
    BY DEF TypesOK
  <2> QED BY <2>1, <2>2, NoEntryFacts, Same DEF Later, Shut, Uncounted
<1>2. \A j \in Ids : entry'[j] \in EntryRow
  BY <1>1 DEF EntryOK
<1> QED BY <1>1, <1>2, SetFacts, SetAges, GateSet DEF Lives, Shuts, Later

LEMMA LivesNone ==
    ASSUME TypesOK, AutoProposeConstants, entry' = entry, newer' = newer,
           gate' = NoGate \/ (gate' \in GateRow /\ gate'.id = gate.id)
    PROVE  Lives
<1>1. AgesStep
  BY DEF TypesOK, AgesStep
<1>2. GateStep
  BY NoGateFacts DEF TypesOK, GateStep, GateOK, AutoProposeConstants
<1> QED BY <1>1, <1>2, Same DEF TypesOK, Lives, Shuts, Later

\* One write, for each that is not a new entry or an order.
Mild(i, e) == EntryOK(e) /\ Later(entry[i], e) /\ Rowed(entry[i], e)

LEMMA Writes ==
    ASSUME TypesOK, NEW i \in Ids, NEW why \in BOOLEAN
    PROVE  /\ i \in OpenProposals => /\ Mild(i, Rejected(entry[i]))
                                     /\ Mild(i, Left(Rejected(entry[i]), why))
           /\ Mild(i, Left(entry[i], why))
           /\ \A item \in {"none", "queued", "blocked"} : Mild(i, [entry[i] EXCEPT !.item = item])
           /\ entry[i].status = "pending" => Mild(i, [entry[i] EXCEPT !.status = "approved"])
           /\ MayApprove(i) => Mild(i, [entry[i] EXCEPT !.status = "approved", !.item = "queued"])
           /\ entry[i].at = "working" => Mild(i, [entry[i] EXCEPT !.at = "held"])
           /\ entry[i].at = "held" => Mild(i, [entry[i] EXCEPT !.at = "gone"])
           /\ entry[i].row = "submitted" /\ entry[i].at \in {"held", "gone"} /\ Watched
                => Mild(i, [entry[i] EXCEPT !.row = "filled"])
           /\ entry[i].at = "working" /\ Watched
                => Mild(i, [entry[i] EXCEPT !.at = "gone",
                                            !.row = IF @ = "submitted" THEN "dead" ELSE @])
<1>0. EntryOK(entry[i]) /\ entry[i] \in EntryRow
  BY DEF TypesOK, EntryOK
<1>1. i \in OpenProposals => /\ Mild(i, Rejected(entry[i]))
                             /\ Mild(i, Left(Rejected(entry[i]), why))
  BY <1>0 DEF Mild, EntryOK, EntryRow, Rejected, Left, Later, Shut, Uncounted, Rowed, Live, Open,
              OpenProposals, Known
<1>2. Mild(i, Left(entry[i], why))
  BY <1>0 DEF Mild, EntryOK, EntryRow, Left, Later, Shut, Uncounted, Rowed, Live, Open
<1>3. ASSUME NEW item \in {"none", "queued", "blocked"} PROVE Mild(i, [entry[i] EXCEPT !.item = item])
  BY <1>0 DEF Mild, EntryOK, EntryRow, Later, Shut, Uncounted, Rowed, Live, Open
<1>4. entry[i].status = "pending" => Mild(i, [entry[i] EXCEPT !.status = "approved"])
  BY <1>0 DEF Mild, EntryOK, EntryRow, Later, Shut, Uncounted, Rowed, Live, Open
<1>5. MayApprove(i) => Mild(i, [entry[i] EXCEPT !.status = "approved", !.item = "queued"])
  BY <1>0 DEF Mild, MayApprove, EntryOK, EntryRow, Later, Shut, Uncounted, Rowed, Live, Open
<1>6. entry[i].at = "working" => Mild(i, [entry[i] EXCEPT !.at = "held"])
  BY <1>0 DEF Mild, EntryOK, EntryRow, Later, Shut, Uncounted, Rowed, Live, Open
<1>7. entry[i].at = "held" => Mild(i, [entry[i] EXCEPT !.at = "gone"])
  BY <1>0 DEF Mild, EntryOK, EntryRow, Later, Shut, Uncounted, Rowed, Live, Open
<1>8. entry[i].row = "submitted" /\ entry[i].at \in {"held", "gone"} /\ Watched
        => Mild(i, [entry[i] EXCEPT !.row = "filled"])
  BY <1>0 DEF Mild, EntryOK, EntryRow, Later, Shut, Uncounted, Rowed, Live, Open
<1>9. entry[i].at = "working" /\ Watched
        => Mild(i, [entry[i] EXCEPT !.at = "gone", !.row = IF @ = "submitted" THEN "dead" ELSE @])
  BY <1>0 DEF Mild, EntryOK, EntryRow, Later, Shut, Uncounted, Rowed, Live, Open
<1> QED BY <1>1, <1>2, <1>3, <1>4, <1>5, <1>6, <1>7, <1>8, <1>9

LEMMA MildSet ==
    ASSUME TypesOK, AutoProposeConstants, NEW i \in Ids, NEW e, Set(i, e), Mild(i, e),
           GateMoves(i, e)
    PROVE  Lives
BY LivesSet DEF Mild

-----------------------------------------------------------------------------
(* One move of a pass *)

PassTo(c, x) == pass' = [pass EXCEPT ![c] = x]

\* The pass goes on with its proposal in hand, or leaves one that does not wait.
Keeps(p, x) == p.pc \in InHand => (x.pc \in InHand /\ x.id = p.id) \/ ~Waits(entry', gate', p.id)

\* What waits has waited before, in the same symbol.
LEMMA WaitedBefore ==
    ASSUME Shuts, NEW i \in Ids, Waits(entry', gate', i)
    PROVE  Waits(entry, gate, i) /\ entry'[i].symbol = entry[i].symbol
<1>1. entry'[i].only /\ ~entry'[i].astray /\ (entry'[i].status \in Open \/ gate'.id = i)
  BY DEF Waits
<1>2. /\ entry[i].only /\ ~entry[i].astray /\ entry'[i].symbol = entry[i].symbol
      /\ entry'[i].status \in Open => entry[i].status \in Open
      /\ EntryOK(entry'[i]) /\ entry'[i] \in EntryRow
  BY <1>1, NoEntryFacts DEF Shuts, Shut
<1>3. gate'.id = i => gate.id = i \/ entry[i].status \in Open
  BY DEF Shuts, GateStep, Open
<1> QED BY <1>1, <1>2, <1>3 DEF Waits

LEMMA PassMoves ==
    ASSUME WaitInv, Shuts, NEW c \in Threads,
           NEW x, PassTo(c, x), PassOK(x, entry'), Keeps(pass[c], x)
    PROVE  WaitInv'
<1>1. pass'[c] = x /\ \A d \in Threads \ {c} : pass'[d] = pass[d]
  BY DEF WaitInv, TypesOK, PassTo
<1>2. ASSUME NEW d \in Threads PROVE PassOK(pass'[d], entry')
  <2>1. CASE d # c
    <3>1. PassOK(pass[d], entry) /\ pass'[d] = pass[d]
      BY <1>1, <2>1 DEF WaitInv, TypesOK
    <3>2. \A j \in Ids : entry'[j].only => entry[j].only
      BY NoEntryFacts DEF Shuts, Shut
    <3>3. pass[d].pc \in InHand => pass[d].id \in Ids
      BY <3>1 DEF PassOK, PassRow
    <3> QED BY <3>1, <3>2, <3>3 DEF PassOK
  <2> QED BY <1>1, <2>1
<1>3. TypesOK'
  <2>1. \A d \in Threads : pass'[d] \in PassRow
    BY <1>2 DEF PassOK
  <2>2. pass' \in [Threads -> PassRow]
    BY <2>1 DEF WaitInv, TypesOK, PassTo
  <2> QED BY <1>2, <2>2 DEF TypesOK, Shuts, AgesStep, GateStep
<1>4. ASSUME NEW i \in Ids, Waits(entry', gate', i)
      PROVE  \E d \in Threads : pass'[d].id = i /\ pass'[d].pc \in InHand
  <2>1. PICK d \in Threads : pass[d].id = i /\ pass[d].pc \in InHand
    BY <1>4, WaitedBefore DEF WaitInv, Handled
  <2>2. CASE d = c
    BY <1>1, <1>4, <2>1, <2>2 DEF Keeps
  <2> QED BY <1>1, <2>1, <2>2
<1> QED BY <1>3, <1>4 DEF WaitInv, Handled

LEMMA PassStays ==
    ASSUME WaitInv, Shuts, pass' = pass
    PROVE  WaitInv'
<1>1. \A j \in Ids : entry'[j].only => entry[j].only
  BY NoEntryFacts DEF Shuts, Shut
<1>2. ASSUME NEW d \in Threads PROVE PassOK(pass'[d], entry')
  <2>1. PassOK(pass[d], entry)
    BY DEF WaitInv, TypesOK
  <2>2. pass[d].pc \in InHand => pass[d].id \in Ids
    BY <2>1 DEF PassOK, PassRow
  <2> QED BY <1>1, <2>1, <2>2 DEF PassOK
<1>3. TypesOK'
  BY <1>2 DEF WaitInv, TypesOK, Shuts, AgesStep, GateStep
<1>4. ASSUME NEW i \in Ids, Waits(entry', gate', i)
      PROVE  \E d \in Threads : pass'[d].id = i /\ pass'[d].pc \in InHand
  BY <1>4, WaitedBefore DEF WaitInv, Handled
<1> QED BY <1>3, <1>4 DEF WaitInv, Handled

LEMMA PassFacts ==
    ASSUME TypesOK, NEW c \in Threads
    PROVE  /\ pass[c] \in PassRow /\ PassOK(pass[c], entry)
           /\ pass[c].pc \in InHand => pass[c].id \in Ids /\ (entry[pass[c].id].only => pass[c].only)
           /\ pass[c].pc \notin InHand => pass[c].id = None
BY DEF TypesOK, PassOK, PassRow

\* Only a pass moves.
Quiet == entry' = entry /\ newer' = newer /\ gate' = gate

LEMMA QuietLives == ASSUME TypesOK, AutoProposeConstants, Quiet PROVE Lives
BY LivesNone DEF Quiet, TypesOK, GateOK

\* A pass that has no proposal in hand goes on.
LEMMA FreeMoves ==
    ASSUME WaitInv, AutoProposeConstants, Quiet, NEW c \in Threads, pass[c].pc \notin InHand,
           NEW x, PassTo(c, x), PassOK(x, entry)
    PROVE  WaitInv'
BY QuietLives, PassMoves DEF Quiet, WaitInv, Keeps, Lives

LEMMA OnwardFacts ==
    ASSUME NEW p \in PassRow, AutoProposeConstants
    PROVE  /\ Onward(p) \in PassRow /\ Onward(p).pc = "next" /\ Onward(p).id = None
           /\ Onward(p).book = p.book /\ Onward(p).fits = p.fits
           /\ \A es : PassOK(Onward(p), es)
<1>1. Onward(p) \in PassRow
  BY DEF Onward, PassRow, InHand
<1>2. /\ Onward(p).pc = "next" /\ Onward(p).id = None
      /\ Onward(p).book = p.book /\ Onward(p).fits = p.fits
  BY DEF Onward, PassRow
<1> QED BY <1>1, <1>2 DEF PassOK, InHand

\* What a pass without a proposal in hand takes over from its reads.
Reads(p, x) ==
    /\ x.pc \notin InHand
    /\ x.pc = "rows" => x.book.trades = TradesToday /\ x.book.held = Held
    /\ \/ x.fits \in {None, p.fits}
       \/ p.pc = "rows" /\ \A s \in x.fits : Headroom(p.book, s) /\ BookHeadroom(p.book, s)
    /\ x.pc = "create" /\ x.only => p.fits # None /\ x.symbol \in p.fits

LEMMA NowFacts ==
    ASSUME TypesOK, AutoProposeConstants
    PROVE  /\ TradesToday \in Nat
           /\ \A S \in SUBSET Known : SymbolsOf(S) \in SUBSET Symbols
           /\ OpenProposals \subseteq Known /\ Held \in SUBSET Symbols
<1>1. IsFiniteSet({i \in Known : entry[i].row # "none" /\ entry[i].today})
  BY FS_Subset DEF AutoProposeConstants, Known
<1>2. TradesToday \in Nat
  BY <1>1, FS_CardinalityType DEF TradesToday
<1>3. \A i \in Known : entry[i].symbol \in Symbols
  BY DEF Known, TypesOK, EntryRow
<1>4. \A S \in SUBSET Known : SymbolsOf(S) \in SUBSET Symbols
  BY <1>3 DEF SymbolsOf
<1> QED BY <1>2, <1>4 DEF OpenProposals, Held

LEMMA FreeSteps ==
    ASSUME TypesOK, AutoProposeConstants, NEW c \in Threads,
           \/ \E riders \in BOOLEAN : StartPass(c, riders)
           \/ \E s \in Symbols, only \in BOOLEAN : Consider(c, s, only)
           \/ ReadHeld(c) \/ ReadContext(c) \/ ReadRows(c) \/ StandAside(c) \/ Admit(c)
           \/ ProposalFails(c) \/ EndPass(c)
    PROVE  /\ Quiet /\ pass[c].pc \notin InHand
           /\ \E x : PassTo(c, x) /\ PassOK(x, entry) /\ Reads(pass[c], x)
<1>0. pass[c] \in PassRow /\ PassOK(pass[c], entry) /\ pass[c].id \in Ids \cup {None}
  BY PassFacts DEF PassRow
<1>p. pass \in [Threads -> PassRow]
  BY DEF TypesOK
<1>1. ASSUME NEW riders \in BOOLEAN, StartPass(c, riders)
      PROVE  /\ Quiet /\ pass[c].pc \notin InHand
             /\ \E x : PassTo(c, x) /\ PassOK(x, entry) /\ Reads(pass[c], x)
  <2> DEFINE x == [NoPass EXCEPT !.pc = "next", !.onlyLeft = riders, !.existing = SymbolsOf(OpenProposals)]
  <2>1. /\ x.pc = "next" /\ x.book = None /\ x.fits = None /\ x.id = None
        /\ x \in PassRow
    <3>1. SymbolsOf(OpenProposals) \in SUBSET Symbols
      BY NowFacts
    <3> QED BY <3>1 DEF NoPass, PassRow, InHand
  <2>2. Quiet /\ pass[c].pc = "idle" /\ PassTo(c, x)
    BY <1>1 DEF StartPass, At, PassTo, Quiet
  <2> HIDE DEF x
  <2> QED BY <2>1, <2>2 DEF Reads, PassOK, InHand
<1>2. ASSUME NEW s \in Symbols, NEW only \in BOOLEAN, Consider(c, s, only)
      PROVE  /\ Quiet /\ pass[c].pc \notin InHand
             /\ \E x : PassTo(c, x) /\ PassOK(x, entry) /\ Reads(pass[c], x)
  <2> DEFINE x == [pass[c] EXCEPT !.pc = IF only THEN "guard" ELSE "create", !.onlyLeft = only,
                                  !.symbol = s, !.only = only]
  <2>1. x.pc = (IF only THEN "guard" ELSE "create") /\ x.only = only /\ x.symbol = s
    BY <1>0 DEF PassRow
  <2>2. x.book = pass[c].book /\ x.fits = pass[c].fits /\ x.id = pass[c].id
    BY <1>0 DEF PassRow
  <2>3. x \in PassRow
    BY <1>0 DEF PassRow, InHand
  <2>4. Quiet /\ pass[c].pc = "next"
    BY <1>2 DEF Consider, At, Quiet
  <2>5. PassTo(c, x)
    BY <1>2, <1>p DEF Consider, PassTo
  <2>6. s # None /\ pass[c].id = None
    BY <1>0, <2>4 DEF AutoProposeConstants, PassOK, InHand
  <2> HIDE DEF x
  <2> QED BY <2>1, <2>2, <2>3, <2>4, <2>5, <2>6 DEF Reads, PassOK, InHand
<1>3. ASSUME NEW S, S \in SUBSET Symbols, At(c, "guard"), UNCHANGED <<entry, newer, etoro, gate>>,
             pass' = [pass EXCEPT ![c].free = S]
      PROVE  /\ Quiet /\ pass[c].pc \notin InHand
             /\ \E x : PassTo(c, x) /\ PassOK(x, entry) /\ Reads(pass[c], x)
  <2> DEFINE x == [pass[c] EXCEPT !.free = S]
  <2>1. /\ x.pc = pass[c].pc /\ x.only = pass[c].only /\ x.symbol = pass[c].symbol
        /\ x.book = pass[c].book /\ x.fits = pass[c].fits /\ x.id = pass[c].id
    BY <1>0 DEF PassRow
  <2>2. x \in PassRow
    BY <1>0, <1>3 DEF PassRow
  <2>3. PassTo(c, x)
    BY <1>3, <1>p DEF PassTo
  <2>4. pass[c].pc = "guard" /\ Quiet
    BY <1>3 DEF At, Quiet
  <2> HIDE DEF x
  <2> QED BY <1>0, <1>3, <2>1, <2>2, <2>3, <2>4 DEF Reads, PassOK, InHand
<1>4. CASE ReadHeld(c)
  <2>1. Symbols \ etoro \in SUBSET Symbols /\ {} \in SUBSET Symbols
    OBVIOUS
  <2> QED BY <1>3, <1>4, <2>1 DEF ReadHeld
<1>5. CASE ReadContext(c)
  <2> DEFINE b == [trades |-> TradesToday, held |-> Held]
             x == [pass[c] EXCEPT !.pc = "rows", !.book = b]
  <2>1. b \in [trades: Nat, held: SUBSET Symbols] /\ b.trades = TradesToday /\ b.held = Held
    BY NowFacts
  <2>3. /\ x.pc = "rows" /\ x.only = pass[c].only /\ x.symbol = pass[c].symbol
        /\ x.book = b /\ x.fits = pass[c].fits /\ x.id = pass[c].id
    BY <1>0 DEF PassRow
  <2>4. x \in PassRow
    BY <1>0, <2>1 DEF PassRow
  <2>5. Quiet /\ pass[c].pc = "guard"
    BY <1>5 DEF ReadContext, At, Quiet
  <2>6. PassTo(c, x)
    BY <1>5, <1>p DEF ReadContext, PassTo
  <2> HIDE DEF x, b
  <2> QED BY <1>0, <2>1, <2>3, <2>4, <2>5, <2>6 DEF Reads, PassOK, InHand
<1>6. CASE ReadRows(c)
  <2> DEFINE f == {s \in Symbols : Headroom(pass[c].book, s) /\ BookHeadroom(pass[c].book, s)}
             x == [pass[c] EXCEPT !.pc = "guard", !.book = None, !.fits = f]
  <2>1. f \in SUBSET Symbols /\ \A s \in f : Headroom(pass[c].book, s) /\ BookHeadroom(pass[c].book, s)
    OBVIOUS
  <2>2. /\ x.pc = "guard" /\ x.only = pass[c].only /\ x.symbol = pass[c].symbol
        /\ x.fits = f /\ x.id = pass[c].id
    BY <1>0 DEF PassRow
  <2>3. x \in PassRow
    BY <1>0, <2>1 DEF PassRow
  <2>4. Quiet /\ pass[c].pc = "rows"
    BY <1>6 DEF ReadRows, At, Quiet
  <2>5. PassTo(c, x)
    BY <1>6, <1>p DEF ReadRows, PassTo
  <2> HIDE DEF x, f
  <2> QED BY <1>0, <2>1, <2>2, <2>3, <2>4, <2>5 DEF Reads, PassOK, InHand
<1>7. CASE StandAside(c) \/ ProposalFails(c)
  <2>1. Quiet /\ pass[c].pc \in {"guard", "create"} /\ PassTo(c, Onward(pass[c]))
    BY <1>7, <1>p DEF StandAside, ProposalFails, At, PassTo, Quiet
  <2>2. PassOK(Onward(pass[c]), entry) /\ Reads(pass[c], Onward(pass[c]))
    BY <1>0, OnwardFacts DEF Reads, InHand
  <2> QED BY <2>1, <2>2 DEF InHand
<1>8. CASE Admit(c)
  <2> DEFINE x == [pass[c] EXCEPT !.pc = "create"]
  <2>1. /\ x.pc = "create" /\ x.only = pass[c].only /\ x.symbol = pass[c].symbol
        /\ x.fits = pass[c].fits /\ x.id = pass[c].id
    BY <1>0 DEF PassRow
  <2>2. x \in PassRow
    BY <1>0 DEF PassRow
  <2>3. /\ Quiet /\ pass[c].pc = "guard"
        /\ pass[c].fits # None /\ pass[c].symbol \in pass[c].fits
    BY <1>8 DEF Admit, At, Quiet
  <2>4. PassTo(c, x)
    BY <1>8, <1>p DEF Admit, Goto, PassTo
  <2> HIDE DEF x
  <2> QED BY <1>0, <2>1, <2>2, <2>3, <2>4 DEF Reads, PassOK, InHand
<1>9. CASE EndPass(c)
  <2>1. Quiet /\ pass[c].pc = "next" /\ PassTo(c, NoPass)
    BY <1>9 DEF EndPass, At, PassTo, Quiet
  <2> QED BY <2>1, NoPassFacts DEF PassOK, Reads, InHand
<1> QED BY <1>1, <1>2, <1>4, <1>5, <1>6, <1>7, <1>8, <1>9

-----------------------------------------------------------------------------
(* A pass with its proposal in hand *)

\* It keeps the proposal, or goes on to the next candidate, or ends.
Carries(p, x) ==
    /\ x.pc \in InHand \cup {"next", "idle"}
    /\ x.pc \in InHand => x.id = p.id /\ x.only = p.only
    /\ x.fits \in {None, p.fits}
    /\ x.pc \in InHand => x.fits = p.fits

LEMMA GotoFacts ==
    ASSUME TypesOK, Shuts, NEW c \in Threads, pass[c].pc \in InHand, NEW pc \in InHand, Goto(c, pc)
    PROVE  \E x : PassTo(c, x) /\ PassOK(x, entry') /\ Keeps(pass[c], x) /\ Carries(pass[c], x)
<1> DEFINE x == [pass[c] EXCEPT !.pc = pc]
<1>0. /\ pass \in [Threads -> PassRow] /\ pass[c] \in PassRow /\ PassOK(pass[c], entry)
      /\ pass[c].id \in Ids /\ (entry[pass[c].id].only => pass[c].only)
  BY PassFacts DEF TypesOK
<1>1. x.pc = pc /\ x.id = pass[c].id /\ x.only = pass[c].only /\ x.fits = pass[c].fits
  BY <1>0 DEF PassRow
<1>2. x \in PassRow
  BY <1>0 DEF PassRow
<1>3. PassTo(c, x)
  BY <1>0 DEF Goto, PassTo
<1>4. entry'[pass[c].id].only => pass[c].only
  BY <1>0, NoEntryFacts DEF Shuts, Shut
<1> HIDE DEF x
<1> QED BY <1>0, <1>1, <1>2, <1>3, <1>4 DEF PassOK, Keeps, Carries, InHand

LEMMA AfterFacts ==
    ASSUME TypesOK, Shuts, AutoProposeConstants, NEW c \in Threads, pass[c].pc \in InHand,
           NEW result \in {"placed", "blocked", "raised"}, After(c, result),
           result = "placed" => ~Waits(entry', gate', pass[c].id)
    PROVE  \E x : PassTo(c, x) /\ PassOK(x, entry') /\ Keeps(pass[c], x) /\ Carries(pass[c], x)
<1>0. /\ pass \in [Threads -> PassRow] /\ pass[c] \in PassRow /\ PassOK(pass[c], entry)
      /\ pass[c].id \in Ids /\ (entry[pass[c].id].only => pass[c].only)
  BY PassFacts DEF TypesOK
<1>1. entry'[pass[c].id].only => pass[c].only
  BY <1>0, NoEntryFacts DEF Shuts, Shut
<1>2. CASE pass[c].only /\ result # "placed"
  <2> DEFINE x == [pass[c] EXCEPT !.pc = "withdraw", !.raised = (result = "raised")]
  <2>1. x.pc = "withdraw" /\ x.id = pass[c].id /\ x.only = pass[c].only /\ x.fits = pass[c].fits
    BY <1>0 DEF PassRow
  <2>2. x \in PassRow
    BY <1>0 DEF PassRow, InHand
  <2>3. PassTo(c, x)
    BY <1>0, <1>2 DEF After, PassTo
  <2> HIDE DEF x
  <2> QED BY <1>0, <1>1, <2>1, <2>2, <2>3 DEF PassOK, Keeps, Carries, InHand
<1>3. CASE ~(pass[c].only /\ result # "placed")
  <2>1. PICK x \in {NoPass, Onward(pass[c])} : PassTo(c, x)
    BY <1>0, <1>3 DEF After, PassTo
  <2>2. x.pc \in {"next", "idle"} /\ x.fits \in {None, pass[c].fits} /\ PassOK(x, entry')
    BY <1>0, NoPassFacts, OnwardFacts DEF PassOK, InHand
  <2>3. Keeps(pass[c], x)
    BY <1>1, <1>3 DEF Keeps, Waits
  <2> QED BY <2>1, <2>2, <2>3 DEF Carries, InHand
<1> QED BY <1>2, <1>3

Hands(c) ==
    \E x : PassTo(c, x) /\ PassOK(x, entry') /\ Keeps(pass[c], x) /\ Carries(pass[c], x)

\* process_queue_item up to the order, and without one.
LEMMA GateActs ==
    ASSUME TypesOK, AutoProposeConstants, NEW i \in Ids, NEW by \in Threads \cup {None},
           Check(i, by) \/ Risk(i, by) \/ Block(i, by) \/ Raise(i, by)
    PROVE  Lives
<1>1. CASE Check(i, by)
  <2> DEFINE e == [entry[i] EXCEPT !.item = "queued"]
  <2>1. Mild(i, e) /\ e.item = "queued" /\ e.row = entry[i].row /\ e.symbol = entry[i].symbol
    <3>1. entry[i] \in EntryRow
      BY DEF TypesOK
    <3> QED BY <3>1, Writes DEF EntryRow
  <2>2. /\ Set(i, e) /\ entry[i].status = "approved" /\ entry[i].row = "none"
        /\ gate' = [NoGate EXCEPT !.id = i, !.pc = "risk", !.by = by]
    BY <1>1 DEF Check, Queued
  <2>3. gate' \in GateRow /\ gate'.id = i
    BY <2>2 DEF NoGate, GateRow
  <2> HIDE DEF e
  <2> QED BY <2>1, <2>2, <2>3, MildSet DEF GateMoves
<1>2. CASE Risk(i, by)
  <2>1. gate' = [gate EXCEPT !.pc = "order"] /\ entry' = entry /\ newer' = newer /\ gate \in GateRow
    BY <1>2 DEF Risk, TypesOK, GateOK
  <2>2. gate' \in GateRow /\ gate'.id = gate.id
    BY <2>1 DEF GateRow
  <2> QED BY <2>1, <2>2, LivesNone
<1>3. CASE Block(i, by)
  <2>1. PICK item \in {"none", "blocked"} : Set(i, [entry[i] EXCEPT !.item = item]) /\ gate' = NoGate
    BY <1>3 DEF Block
  <2> DEFINE e == [entry[i] EXCEPT !.item = item]
  <2>2. Mild(i, e) /\ Set(i, e)
    BY <2>1, Writes
  <2> HIDE DEF e
  <2> QED BY <2>1, <2>2, MildSet DEF GateMoves
<1>4. CASE Raise(i, by)
  BY <1>4, LivesNone DEF Raise
<1> QED BY <1>1, <1>2, <1>3, <1>4

LEMMA HandSteps ==
    ASSUME TypesOK, AutoProposeConstants, NEW c \in Threads, AutoApprove(c) \/ Enqueue(c) \/ Withdraw(c)
    PROVE  Lives /\ pass[c].pc \in InHand /\ Hands(c)
<1>0. /\ pass \in [Threads -> PassRow] /\ pass[c] \in PassRow
      /\ pass[c].pc \in InHand => pass[c].id \in Ids /\ (entry[pass[c].id].only => pass[c].only)
  BY PassFacts DEF TypesOK
<1>1. CASE AutoApprove(c)
  <2>1. pass[c].pc \in InHand /\ pass[c].id \in Ids
    BY <1>0, <1>1 DEF AutoApprove, At, InHand
  <2>2. CASE /\ entry[pass[c].id].status = "pending"
             /\ Set(pass[c].id, [entry[pass[c].id] EXCEPT !.status = "approved"])
             /\ Goto(c, "enqueue") \/ After(c, "raised")
             /\ gate' = gate
    <3> DEFINE i == pass[c].id
               e == [entry[i] EXCEPT !.status = "approved"]
    <3>1. Mild(i, e) /\ Set(i, e) /\ i \in Ids
      BY <2>1, <2>2, Writes
    <3>2. e.item = entry[i].item /\ e.symbol = entry[i].symbol
      BY <2>1 DEF TypesOK, EntryRow
    <3>3. gate \in GateRow /\ (gate.id = i => entry[i].item = "queued")
      BY <2>1, AutoProposeConstants DEF TypesOK, GateOK, AutoProposeConstants
    <3>4. Lives
      <4> HIDE DEF e, i
      <4> QED BY <2>2, <3>1, <3>2, <3>3, MildSet DEF GateMoves
    <3> QED BY <2>1, <2>2, <3>4, GotoFacts, AfterFacts DEF Lives, InHand, Hands
  <2>3. CASE Quiet /\ \E r \in {"raised", "blocked"} : After(c, r)
    <3>1. Lives
      BY <2>3, QuietLives
    <3> QED BY <2>1, <2>3, <3>1, AfterFacts DEF Lives, Hands
  <2> QED BY <1>1, <2>1, <2>2, <2>3 DEF AutoApprove, Quiet
<1>2. CASE Enqueue(c)
  <2>1. pass[c].pc \in InHand /\ pass[c].id \in Ids
    BY <1>0, <1>2 DEF Enqueue, At, InHand
  <2>2. CASE Set(pass[c].id, Queued(entry[pass[c].id])) /\ gate' = gate
    <3> DEFINE i == pass[c].id
               e == [entry[i] EXCEPT !.item = "queued"]
    <3>1. Mild(i, e) /\ Set(i, e) /\ i \in Ids
      BY <2>1, <2>2, Writes DEF Queued
    <3>2. e.item = "queued" /\ e.symbol = entry[i].symbol /\ gate \in GateRow
      BY <2>1 DEF TypesOK, EntryRow, GateOK
    <3>3. Lives
      <4> HIDE DEF e, i
      <4> QED BY <2>2, <3>1, <3>2, MildSet DEF GateMoves
    <3>4. Goto(c, "process") \/ After(c, "raised")
      BY <1>2 DEF Enqueue
    <3> QED BY <2>1, <3>3, <3>4, GotoFacts, AfterFacts DEF Lives, InHand, Hands
  <2>3. CASE Quiet /\ After(c, "raised")
    <3>1. Lives
      BY <2>3, QuietLives
    <3> QED BY <2>1, <2>3, <3>1, AfterFacts DEF Lives, Hands
  <2> QED BY <1>2, <2>2, <2>3 DEF Enqueue, Quiet
<1>3. CASE Withdraw(c)
  <2>1. pass[c].pc \in InHand /\ pass[c].id \in Ids
    BY <1>0, <1>3 DEF Withdraw, At, InHand
  <2> DEFINE i == pass[c].id
  <2>2. /\ i \in Ids /\ EntryOK(entry[i]) /\ entry[i] \in EntryRow
        /\ gate' = gate /\ gate \in GateRow /\ (gate.id = i => entry[i].item = "queued")
    BY <1>3, <2>1, AutoProposeConstants DEF TypesOK, GateOK, Withdraw, AutoProposeConstants
  <2>3. ASSUME NEW e, Set(i, e), Mild(i, e), e.item = entry[i].item, e.symbol = entry[i].symbol,
               e.only => e.astray \/ (e.status \notin Open /\ gate.id # i)
        PROVE  Lives /\ ~Waits(entry', gate', i)
    <3>1. Lives
      BY <2>2, <2>3, MildSet DEF GateMoves
    <3>2. entry'[i] \in {e, NoEntry}
      BY <2>2, <2>3, SetFacts
    <3> QED BY <2>2, <2>3, <3>1, <3>2, NoEntryFacts DEF Waits
  <2>4. Lives /\ ~Waits(entry', gate', i)
    <3>1. CASE CanReject(i) /\ Set(i, Left(Rejected(entry[i]), gate.id = i))
      <4> DEFINE e == Left(Rejected(entry[i]), gate.id = i)
      <4>1. Mild(i, e)
        BY <2>2, <3>1, Writes DEF CanReject
      <4>2. /\ e.item = entry[i].item /\ e.symbol = entry[i].symbol /\ e.status = "closed"
            /\ e.only => e.astray \/ gate.id # i
        BY <2>2 DEF Left, Rejected, EntryRow
      <4>3. Set(i, e)
        BY <3>1
      <4> HIDE DEF e, i
      <4> QED BY <2>3, <4>1, <4>2, <4>3 DEF Open
    <3>2. CASE Set(i, Left(entry[i], i \in OpenProposals \/ gate.id = i))
      <4> DEFINE e == Left(entry[i], i \in OpenProposals \/ gate.id = i)
      <4>1. Mild(i, e)
        BY <2>2, Writes
      <4>2. /\ e.item = entry[i].item /\ e.symbol = entry[i].symbol /\ e.status = entry[i].status
            /\ e.only => e.astray \/ (gate.id # i /\ i \notin OpenProposals)
        BY <2>2 DEF Left, EntryRow
      <4>3. Set(i, e) /\ (i \notin OpenProposals => entry[i].status \notin Open)
        BY <2>2, <3>2 DEF OpenProposals, Known, EntryOK, Open
      <4> HIDE DEF e, i
      <4> QED BY <2>3, <4>1, <4>2, <4>3
    <3> QED BY <1>3, <3>1, <3>2 DEF Withdraw
  <2>5. PICK x \in {NoPass, Onward(pass[c])} : PassTo(c, x)
    BY <1>0, <1>3 DEF Withdraw, PassTo
  <2>6. x.pc \in {"next", "idle"} /\ x.fits \in {None, pass[c].fits} /\ PassOK(x, entry')
    BY <1>0, NoPassFacts, OnwardFacts DEF PassOK, InHand
  <2> QED BY <2>1, <2>4, <2>5, <2>6 DEF Hands, Keeps, Carries, InHand
<1> QED BY <1>1, <1>2, <1>3

-----------------------------------------------------------------------------
(* Orders, new proposals, and everybody else *)

\* The order of entry i is sent, and has its row, whether accepted, refused or unanswered.
OrderStep(i) == \E by \in Threads \cup {None} : Submit(i, by) \/ SubmitFails(i, by)

LEMMA OrderFacts ==
    ASSUME TypesOK, AutoProposeConstants, NEW i \in Ids, OrderStep(i)
    PROVE  /\ Shuts /\ \A j \in Ids \ {i} : entry'[j] = entry[j]
           /\ gate.id = i /\ gate' = NoGate /\ entry[i].row = "none"
           /\ entry'[i].row # "none" /\ entry'[i].symbol = entry[i].symbol
           /\ entry'[i].only = entry[i].only /\ entry'[i].astray = entry[i].astray
           /\ entry'[i].status \in Open => entry'[i].row = "failed"
<1>0. /\ EntryOK(entry[i]) /\ entry[i] \in EntryRow
      /\ \A j \in Ids : entry[j] \in EntryRow /\ EntryOK(entry[j])
  BY DEF TypesOK
<1>1. /\ gate.id = i /\ gate' = NoGate /\ entry[i].row = "none" /\ entry[i].symbol # None
      /\ GateStep
  <2>1. gate.id = i /\ gate' = NoGate /\ i # None
    BY DEF OrderStep, Submit, SubmitFails, Holds, AutoProposeConstants
  <2> QED BY <2>1, NoGateFacts DEF TypesOK, GateOK, GateStep, AutoProposeConstants
<1>2. PICK e : /\ Record(i, e) /\ EntryOK(e)
               /\ e.row # "none" /\ e.today /\ e.symbol = entry[i].symbol
               /\ e.only = entry[i].only /\ e.astray = entry[i].astray
               /\ e.status \in Open => e.row = "failed" /\ e.status = entry[i].status
  <2>1. CASE \E by \in Threads \cup {None} : Submit(i, by)
    <3> DEFINE e == Ordered(entry[i])
    <3>1. Record(i, e)
      BY <2>1 DEF Submit
    <3>2. /\ EntryOK(e) /\ e.row # "none" /\ e.today /\ e.symbol = entry[i].symbol
          /\ e.only = entry[i].only /\ e.astray = entry[i].astray /\ e.status \notin Open
      BY <1>0, <1>1 DEF Ordered, EntryOK, EntryRow, Open, Live
    <3> HIDE DEF e
    <3> QED BY <3>1, <3>2
  <2>2. CASE \E by \in Threads \cup {None} : SubmitFails(i, by)
    <3>1. PICK at \in {"gone", "working"} \cup {entry[i].at} :
            Record(i, [entry[i] EXCEPT !.item = "none", !.row = "failed", !.at = at, !.today = TRUE])
      BY <2>2 DEF SubmitFails
    <3> DEFINE e == [entry[i] EXCEPT !.item = "none", !.row = "failed", !.at = at, !.today = TRUE]
    <3>2. /\ EntryOK(e) /\ e.row = "failed" /\ e.today /\ e.symbol = entry[i].symbol
          /\ e.only = entry[i].only /\ e.astray = entry[i].astray /\ e.status = entry[i].status
      BY <1>0, <1>1 DEF EntryOK, EntryRow, Open, Live
    <3>3. Record(i, e)
      BY <3>1
    <3> HIDE DEF e
    <3> QED BY <3>2, <3>3
  <2> QED BY <2>1, <2>2 DEF OrderStep
<1>3. entry' = [entry EXCEPT ![i] = e]
  BY <1>2 DEF Record
<1>4. entry'[i] = e /\ \A j \in Ids \ {i} : entry'[j] = entry[j]
  BY <1>3 DEF TypesOK
<1>5. \A j \in Ids : EntryOK(entry'[j]) /\ Shut(entry[j], entry'[j])
  BY <1>0, <1>2, <1>4, Same DEF Shut, Later
<1>6. entry' \in [Ids -> EntryRow]
  BY <1>2, <1>3 DEF TypesOK, EntryOK
<1>7. AgesStep
  <2>1. newer' = [j \in Ids |-> IF entry[j].row # "none" /\ entry[j].symbol = entry[i].symbol
                                THEN newer[j] \cup {i} ELSE newer[j]]
    BY <1>2 DEF Record
  <2>2. e.row # "none" /\ e.today /\ e.symbol = entry[i].symbol
    BY <1>2
  <2>3. AgesOK(newer, entry)
    BY DEF TypesOK
  <2>4. newer[i] = {} /\ newer'[i] = {} /\ \A j \in Ids : newer[j] \subseteq newer'[j] /\ i \notin newer[j]
    BY <1>1, <2>1, <2>3 DEF AgesOK
  <2>5. /\ \A j \in Ids \ {i} : entry[j].row # "none" /\ entry[j].symbol = entry[i].symbol
                                 => newer'[j] = newer[j] \cup {i}
        /\ \A j \in Ids \ {i} : ~(entry[j].row # "none" /\ entry[j].symbol = entry[i].symbol)
                                 => newer'[j] = newer[j]
    BY <2>1
  <2>6. newer' \in [Ids -> SUBSET Ids]
    BY <2>1, <2>3 DEF AgesOK
  <2>7. ASSUME NEW j \in Ids, NEW k \in Ids, k \in newer'[j]
        PROVE  /\ entry'[j].row # "none" /\ entry'[k].row # "none" /\ entry'[j].symbol = entry'[k].symbol
               /\ j \notin newer'[k] /\ newer'[k] \subseteq newer'[j]
               /\ entry'[j].today => entry'[k].today
    <3>1. j # i
      BY <2>4, <2>7
    <3>2. CASE k = i
      <4>1. entry[j].row # "none" /\ entry[j].symbol = entry[i].symbol
        BY <2>4, <2>5, <2>7, <3>1, <3>2
      <4> QED BY <1>4, <2>2, <2>4, <3>1, <3>2, <4>1
    <3>3. CASE k # i
      <4>1. k \in newer[j]
        BY <2>5, <2>7, <3>1, <3>3
      <4>2. /\ entry[j].row # "none" /\ entry[k].row # "none" /\ entry[j].symbol = entry[k].symbol
            /\ j \notin newer[k] /\ newer[k] \subseteq newer[j]
            /\ entry[j].today => entry[k].today
        BY <2>3, <4>1 DEF AgesOK
      <4>3. j \notin newer'[k] /\ newer'[k] \subseteq newer'[j]
        BY <2>5, <3>1, <3>3, <4>2
      <4>4. entry'[j] = entry[j] /\ entry'[k] = entry[k]
        BY <1>4, <3>1, <3>3
      <4> QED BY <4>2, <4>3, <4>4
    <3> QED BY <3>2, <3>3
  <2>8. ASSUME NEW j \in Ids, NEW k \in Ids, j # k, entry'[j].row # "none", entry'[k].row # "none",
               entry'[j].symbol = entry'[k].symbol
        PROVE  k \in newer'[j] \/ j \in newer'[k]
    <3>1. CASE j = i
      <4>1. entry'[k] = entry[k] /\ entry'[j].symbol = entry[i].symbol
        BY <1>4, <2>2, <2>8, <3>1
      <4> QED BY <2>5, <2>8, <3>1, <4>1
    <3>2. CASE k = i
      <4>1. entry'[j] = entry[j] /\ entry'[k].symbol = entry[i].symbol
        BY <1>4, <2>2, <2>8, <3>2
      <4> QED BY <2>5, <2>8, <3>2, <4>1
    <3>3. CASE j # i /\ k # i
      <4>1. entry'[j] = entry[j] /\ entry'[k] = entry[k]
        BY <1>4, <3>3
      <4>2. k \in newer[j] \/ j \in newer[k]
        BY <2>3, <2>8, <4>1 DEF AgesOK
      <4> QED BY <2>4, <4>2
    <3> QED BY <3>1, <3>2, <3>3
  <2> QED BY <2>4, <2>6, <2>7, <2>8 DEF AgesStep, AgesOK
<1> QED BY <1>1, <1>2, <1>4, <1>5, <1>6, <1>7 DEF Shuts

Creates(c, i) == CreateProposal(c, i) \/ LoseProposal(c, i)

\* The pass has the new proposal in hand, or has lost it.
InHandOrLost(c, i, x) ==
    /\ x.fits \in {None, pass[c].fits}
    /\ \/ /\ x.pc = "auto" /\ x.id = i /\ x.only = pass[c].only
          /\ x.only => x.fits = None
       \/ x.pc \in {"next", "idle"} /\ (entry'[i].only => entry'[i].astray)

LEMMA CreateFacts ==
    ASSUME TypesOK, AutoProposeConstants, NEW c \in Threads, NEW i \in Ids, Creates(c, i)
    PROVE  /\ pass[c].pc = "create" /\ entry[i] = NoEntry /\ \A d \in Threads : pass[d].id # i
           /\ entry' \in [Ids -> EntryRow] /\ \A j \in Ids : EntryOK(entry'[j])
           /\ AgesStep /\ \A j \in Ids \ {i} : Later(entry[j], entry'[j])
           /\ entry'[i].row = "none" /\ (entry'[i].only => pass[c].only)
           /\ entry'[i].at = "none" /\ gate' = gate /\ gate.id # i /\ GateStep
           /\ entry'[i].only => entry'[i].symbol = pass[c].symbol
           /\ \E x : PassTo(c, x) /\ PassOK(x, entry') /\ InHandOrLost(c, i, x)
<1>0. /\ pass \in [Threads -> PassRow] /\ pass[c] \in PassRow /\ PassOK(pass[c], entry)
  BY PassFacts DEF TypesOK
<1>11. PICK lost \in BOOLEAN : /\ Proposes(c, i, lost)
                               /\ CreateProposal(c, i) \/ (lost /\ LoseProposal(c, i))
  BY DEF Creates, CreateProposal, LoseProposal
<1> DEFINE e == Left(Proposed(pass[c]), lost)
<1>12. Set(i, e) /\ gate' = gate
  BY <1>11 DEF Proposes
<1>13. /\ At(c, "create") /\ entry[i] = NoEntry
      /\ \A d \in Threads : pass[d].id # i
  BY <1>11 DEF Proposes
<1>1. /\ pass[c].pc = "create" /\ entry[i] = NoEntry /\ Set(i, e)
      /\ \A d \in Threads : pass[d].id # i
  BY <1>12, <1>13 DEF At
<1>2. pass[c].symbol \in Symbols /\ pass[c].symbol # None /\ pass[c].only \in BOOLEAN
  BY <1>0, <1>1 DEF PassOK, PassRow
<1>3. /\ e.symbol = pass[c].symbol /\ e.only = pass[c].only /\ e.row = "none" /\ e.at = "none"
      /\ EntryOK(e) /\ (lost /\ e.only => e.astray)
  BY <1>2 DEF Left, Proposed, NoEntry, EntryOK, EntryRow, Open, Live
<1>a. AgesStep
  <2>1. Rowed(entry[i], e)
    BY <1>1, <1>3, NoEntryFacts DEF Rowed
  <2> QED BY <1>1, <2>1, SetAges
<1>b. gate' = gate /\ gate.id # i /\ GateStep
  <2>1. gate' = gate /\ gate \in GateRow /\ gate.id # i
    BY <1>12, <1>1, NoEntryFacts, AutoProposeConstants DEF TypesOK, GateOK, AutoProposeConstants
  <2>2. Rowed(entry[i], e) /\ GateMoves(i, e)
    BY <1>1, <1>3, <2>1, NoEntryFacts DEF Rowed, GateMoves
  <2> QED BY <1>1, <2>1, <2>2, GateSet
<1> HIDE DEF e
<1>4. entry'[i] \in {e, NoEntry} /\ \A j \in Ids \ {i} : entry'[j] \in {entry[j], NoEntry}
  BY <1>1, SetFacts
<1>5. \A j \in Ids : EntryOK(entry'[j])
  BY <1>3, <1>4, NoEntryFacts DEF TypesOK
<1>6. entry' \in [Ids -> EntryRow]
  <2>1. \A j \in Ids : entry'[j] \in EntryRow
    BY <1>5 DEF EntryOK
  <2> QED BY <1>1, <2>1, SetFacts
<1>7. \A j \in Ids \ {i} : Later(entry[j], entry'[j])
  BY <1>4, NoEntryFacts DEF Later, Shut, Uncounted
<1>8. /\ entry'[i].row = "none" /\ entry'[i].at = "none" /\ (entry'[i].only => pass[c].only)
      /\ entry'[i].only => entry'[i].symbol = pass[c].symbol
      /\ lost /\ entry'[i].only => entry'[i].astray
  BY <1>3, <1>4, NoEntryFacts
<1>9. i # None
  BY DEF AutoProposeConstants
<1>10. \E x : PassTo(c, x) /\ PassOK(x, entry') /\ InHandOrLost(c, i, x)
  <2>1. CASE CreateProposal(c, i) /\ pass[c].only
    <3> DEFINE x == [NoPass EXCEPT !.pc = "auto", !.id = i, !.made = pass[c].made + 1, !.onlyLeft = TRUE,
                                   !.symbol = pass[c].symbol, !.only = TRUE]
    <3>1. x.pc = "auto" /\ x.id = i /\ x.only = TRUE /\ x.fits = None
      BY DEF NoPass
    <3>2. x \in PassRow
      <4>1. pass[c].made + 1 \in Nat
        BY <1>0 DEF PassRow
      <4> QED BY <1>2, <4>1, NoPassFacts DEF PassRow, InHand
    <3>3. PassTo(c, x)
      BY <2>1 DEF CreateProposal, PassTo
    <3> HIDE DEF x
    <3> QED BY <1>8, <1>9, <2>1, <3>1, <3>2, <3>3 DEF PassOK, InHand, InHandOrLost
  <2>2. CASE CreateProposal(c, i) /\ ~pass[c].only
    <3> DEFINE x == [pass[c] EXCEPT !.pc = "auto", !.id = i,
                                    !.existing = pass[c].existing \cup {pass[c].symbol}]
    <3>1. x.pc = "auto" /\ x.id = i /\ x.only = pass[c].only /\ x.fits = pass[c].fits
      BY <1>0 DEF PassRow
    <3>2. x \in PassRow
      <4>1. pass[c].existing \cup {pass[c].symbol} \in SUBSET Symbols
        BY <1>0, <1>2 DEF PassRow
      <4> QED BY <1>0, <4>1 DEF PassRow, InHand
    <3>3. PassTo(c, x)
      BY <1>0, <2>2 DEF CreateProposal, PassTo
    <3> HIDE DEF x
    <3> QED BY <1>8, <1>9, <2>2, <3>1, <3>2, <3>3 DEF PassOK, InHand, InHandOrLost
  <2>3. CASE lost /\ LoseProposal(c, i)
    <3>1. PICK x \in {Onward(pass[c]), NoPass} : pass' = [pass EXCEPT ![c] = x]
      BY <2>3 DEF LoseProposal
    <3>2. /\ x.pc \in {"next", "idle"} /\ x.id = None /\ x.fits \in {None, pass[c].fits}
          /\ x \in PassRow
      BY <1>0, OnwardFacts, NoPassFacts
    <3>3. PassTo(c, x)
      BY <1>0, <3>1 DEF PassTo
    <3> QED BY <1>8, <2>3, <3>2, <3>3 DEF PassOK, InHand, InHandOrLost
  <2> QED BY <1>11, <2>1, <2>2, <2>3
<1> QED BY <1>1, <1>5, <1>6, <1>7, <1>8, <1>10, <1>a, <1>b

LEMMA OtherSteps ==
    ASSUME TypesOK, AutoProposeConstants,
           \/ \E i \in Ids : \/ HumanApproves(i) \/ HumanQueues(i) \/ Ends(i)
                             \/ Fills(i) \/ Dies(i) \/ Exits(i) \/ Synced(i)
           \/ \E i \in Ids, s \in Symbols : HumanTrades(i, s)
           \/ \E s \in Symbols : EtoroCloses(s) \/ Adopts(s)
           \/ Midnight
    PROVE  Lives /\ pass' = pass
<1>0. gate \in GateRow /\ \A i \in Ids : gate.id = i => entry[i].item = "queued"
  BY DEF TypesOK, GateOK, AutoProposeConstants
<1>1. ASSUME NEW i \in Ids, \/ HumanApproves(i) \/ HumanQueues(i) \/ Ends(i)
                            \/ Fills(i) \/ Dies(i) \/ Exits(i) \/ Synced(i)
      PROVE  Lives /\ pass' = pass
  <2>0. entry[i] \in EntryRow
    BY DEF TypesOK
  <2>1. ASSUME NEW e, Set(i, e), Mild(i, e), e.item \in {entry[i].item, "queued"},
               e.symbol = entry[i].symbol, gate' = gate
        PROVE  Lives
    BY <1>0, <2>1, MildSet DEF GateMoves
  <2>2. CASE HumanApproves(i)
    <3> DEFINE e == [entry[i] EXCEPT !.status = "approved", !.item = "queued"]
    <3>1. Set(i, e) /\ Mild(i, e) /\ gate' = gate /\ pass' = pass
      BY <2>2, Writes DEF HumanApproves
    <3>2. e.item = "queued" /\ e.symbol = entry[i].symbol
      BY <2>0 DEF EntryRow
    <3> HIDE DEF e
    <3> QED BY <2>1, <3>1, <3>2
  <2>3. CASE HumanQueues(i)
    <3> DEFINE e == [entry[i] EXCEPT !.item = "queued"]
    <3>1. Set(i, e) /\ Mild(i, e) /\ gate' = gate /\ pass' = pass
      BY <2>3, Writes DEF HumanQueues, Queued
    <3>2. e.item = "queued" /\ e.symbol = entry[i].symbol
      BY <2>0 DEF EntryRow
    <3> HIDE DEF e
    <3> QED BY <2>1, <3>1, <3>2
  <2>4. CASE Ends(i)
    <3> DEFINE e == Rejected(entry[i])
    <3>1. Set(i, e) /\ Mild(i, e) /\ gate' = gate /\ pass' = pass
      BY <2>4, Writes DEF Ends
    <3>2. e.item = entry[i].item /\ e.symbol = entry[i].symbol
      BY <2>0 DEF Rejected, EntryRow
    <3> HIDE DEF e
    <3> QED BY <2>1, <3>1, <3>2
  <2>5. CASE Fills(i)
    <3> DEFINE e == [entry[i] EXCEPT !.at = "held"]
    <3>1. Set(i, e) /\ Mild(i, e) /\ gate' = gate /\ pass' = pass
      BY <2>5, Writes DEF Fills
    <3>2. e.item = entry[i].item /\ e.symbol = entry[i].symbol
      BY <2>0 DEF EntryRow
    <3> HIDE DEF e
    <3> QED BY <2>1, <3>1, <3>2
  <2>6. CASE Exits(i)
    <3> DEFINE e == [entry[i] EXCEPT !.at = "gone"]
    <3>1. Set(i, e) /\ Mild(i, e) /\ gate' = gate /\ pass' = pass
      BY <2>6, Writes DEF Exits
    <3>2. e.item = entry[i].item /\ e.symbol = entry[i].symbol
      BY <2>0 DEF EntryRow
    <3> HIDE DEF e
    <3> QED BY <2>1, <3>1, <3>2
  <2>7. CASE Synced(i)
    <3> DEFINE e == [entry[i] EXCEPT !.row = "filled"]
    <3>1. Set(i, e) /\ Mild(i, e) /\ gate' = gate /\ pass' = pass
      BY <2>7, Writes DEF Synced
    <3>2. e.item = entry[i].item /\ e.symbol = entry[i].symbol
      BY <2>0 DEF EntryRow
    <3> HIDE DEF e
    <3> QED BY <2>1, <3>1, <3>2
  <2>8. CASE Dies(i)
    <3> DEFINE e == [entry[i] EXCEPT !.at = "gone", !.row = IF @ = "submitted" THEN "dead" ELSE @]
    <3>1. Set(i, e) /\ Mild(i, e) /\ gate' = gate /\ pass' = pass
      BY <2>8, Writes DEF Dies
    <3>2. e.item = entry[i].item /\ e.symbol = entry[i].symbol
      BY <2>0 DEF EntryRow
    <3> HIDE DEF e
    <3> QED BY <2>1, <3>1, <3>2
  <2> QED BY <1>1, <2>2, <2>3, <2>4, <2>5, <2>6, <2>7, <2>8
<1>2. ASSUME NEW i \in Ids, NEW s \in Symbols, HumanTrades(i, s) PROVE Lives /\ pass' = pass
  <2> DEFINE e == [NoEntry EXCEPT !.symbol = s, !.status = "approved", !.item = "queued"]
  <2>1. s # None
    BY DEF AutoProposeConstants
  <2>2. EntryOK(e) /\ e.only = FALSE /\ e.row = "none" /\ e.at = "none"
    BY <2>1 DEF NoEntry, EntryOK, EntryRow, Open, Live
  <2>3. entry[i] = NoEntry /\ Set(i, e) /\ pass' = pass /\ gate' = gate
    BY <1>2 DEF HumanTrades
  <2> HIDE DEF e
  <2>4. Later(entry[i], e) /\ Rowed(entry[i], e)
    BY <2>2, <2>3, NoEntryFacts DEF Later, Shut, Uncounted, Rowed
  <2>5. GateMoves(i, e)
    BY <1>0, <2>3, NoEntryFacts DEF GateMoves
  <2> QED BY <2>2, <2>3, <2>4, <2>5, LivesSet
<1>3. ASSUME NEW s \in Symbols, EtoroCloses(s) \/ Adopts(s) PROVE Lives /\ pass' = pass
  <2>1. /\ entry' = entry /\ newer' = newer /\ pass' = pass
        /\ gate' = gate \/ gate' = [gate EXCEPT !.adopted = TRUE]
    BY <1>3 DEF EtoroCloses, Adopts
  <2>2. gate' \in GateRow /\ gate'.id = gate.id
    BY <1>0, <2>1 DEF GateRow
  <2> QED BY <2>1, <2>2, LivesNone
<1>4. CASE Midnight
  <2> DEFINE es == [i \in Ids |-> [Left(entry[i], Overnight(i)) EXCEPT !.today = FALSE]]
  <2>1. Become(es) /\ pass' = pass /\ gate' = gate
    BY <1>4 DEF Midnight
  <2>2. ASSUME NEW j \in Ids
        PROVE  /\ EntryOK(es[j]) /\ Later(entry[j], es[j]) /\ es[j].item = entry[j].item
               /\ es[j].row = entry[j].row /\ es[j].symbol = entry[j].symbol /\ ~es[j].today
    <3>1. EntryOK(entry[j]) /\ entry[j] \in EntryRow
      BY DEF TypesOK
    <3>2. Overnight(j) \in BOOLEAN
      BY DEF Overnight
    <3>3. /\ entry[j].at = "working" => Overnight(j)
          /\ entry[j].row = "submitted" /\ ~NoRows => Overnight(j)
      BY DEF Overnight, NoRows, At
    <3> HIDE DEF Overnight
    <3>4. es[j] = [Left(entry[j], Overnight(j)) EXCEPT !.today = FALSE]
      OBVIOUS
    <3>5. /\ es[j] \in EntryRow /\ es[j].symbol = entry[j].symbol /\ es[j].only = entry[j].only
          /\ es[j].status = entry[j].status /\ es[j].item = entry[j].item /\ es[j].row = entry[j].row
          /\ es[j].at = entry[j].at /\ ~es[j].today
          /\ es[j].astray = (entry[j].astray \/ (entry[j].only /\ Overnight(j)))
      BY <3>1, <3>2, <3>4 DEF Left, EntryRow
    <3> HIDE DEF es
    <3> QED BY <3>1, <3>3, <3>5 DEF EntryOK, Later, Shut, Uncounted, Live
  <2> HIDE DEF es
  <2>a. AgesStep
    BY <2>1, <2>2, BecomeAges
  <2>3. ASSUME NEW j \in Ids PROVE EntryOK(entry'[j]) /\ Later(entry[j], entry'[j])
    <3>1. entry'[j] \in {es[j], NoEntry}
      BY <2>1, BecomeFacts
    <3> QED BY <2>2, <3>1, NoEntryFacts DEF Later, Shut, Uncounted
  <2>4. entry' \in [Ids -> EntryRow]
    <3>1. \A j \in Ids : entry'[j] \in EntryRow
      BY <2>3 DEF EntryOK
    <3> QED BY <2>1, <3>1, BecomeFacts
  <2>5. GateStep
    <3>1. gate.id # None => entry'[gate.id] = es[gate.id]
      BY <1>0, <2>1, <2>2, BecomeFacts DEF GateRow
    <3> QED BY <1>0, <2>1, <2>2, <3>1 DEF GateStep, GateOK, TypesOK, GateRow
  <2> QED BY <2>1, <2>a, <2>3, <2>4, <2>5 DEF Lives, Shuts, Later
<1> QED BY <1>1, <1>2, <1>3, <1>4

\* After a restart nothing is in hand, and what was has gone astray.
Restarted ==
    /\ Shuts /\ pass' = [c \in Threads |-> NoPass] /\ gate' = NoGate
    /\ \A j \in Ids : /\ ~Waits(entry', gate', j) /\ Uncounted(entry[j], entry'[j])
                      /\ entry'[j].at = "working" => entry[j].at = "working" \/ gate.id = j

LEMMA RestartFacts ==
    ASSUME TypesOK, AutoProposeConstants, Restart
    PROVE  Restarted
<1>1. PICK sent \in SUBSET {i \in Ids : gate.id = i /\ gate.pc = "order" /\ entry[i].at = "none"} :
        Become([i \in Ids |->
           [Left(entry[i], i \in OpenProposals \/ gate.id = i) EXCEPT
              !.at = IF i \in sent THEN "working" ELSE @]])
  BY DEF Restart
<1> DEFINE why(i) == i \in OpenProposals \/ gate.id = i
           es == [i \in Ids |-> [Left(entry[i], why(i)) EXCEPT
                                   !.at = IF i \in sent THEN "working" ELSE @]]
<1>2. Become(es) /\ pass' = [c \in Threads |-> NoPass] /\ gate' = NoGate
  BY <1>1 DEF Restart
<1>3. ASSUME NEW j \in Ids
      PROVE  /\ EntryOK(es[j]) /\ Shut(entry[j], es[j]) /\ Uncounted(entry[j], es[j])
             /\ es[j].row = entry[j].row /\ es[j].symbol = entry[j].symbol /\ es[j].today = entry[j].today
             /\ es[j].only /\ ~es[j].astray => es[j].status \notin Open
             /\ es[j].at = "working" => entry[j].at = "working" \/ gate.id = j
  <2>1. /\ EntryOK(entry[j]) /\ entry[j] \in EntryRow
        /\ gate.id = j => entry[j].row = "none"
        /\ j \in sent => gate.id = j
    BY DEF TypesOK, GateOK, AutoProposeConstants
  <2>2. /\ why(j) \in BOOLEAN /\ (gate.id = j => why(j))
        /\ entry[j].status \in Open => why(j)
    BY <2>1 DEF OpenProposals, Known, EntryOK, Open
  <2>3. es[j] = [Left(entry[j], why(j)) EXCEPT !.at = IF j \in sent THEN "working" ELSE @]
    OBVIOUS
  <2> HIDE DEF why
  <2>4. /\ es[j] \in EntryRow /\ es[j].symbol = entry[j].symbol /\ es[j].only = entry[j].only
        /\ es[j].status = entry[j].status /\ es[j].item = entry[j].item /\ es[j].row = entry[j].row
        /\ es[j].at = (IF j \in sent THEN "working" ELSE entry[j].at) /\ es[j].today = entry[j].today
        /\ es[j].astray = (entry[j].astray \/ (entry[j].only /\ why(j)))
    BY <2>1, <2>2, <2>3 DEF Left, EntryRow
  <2> HIDE DEF es
  <2> QED BY <2>1, <2>2, <2>4 DEF EntryOK, Shut, Uncounted, Live
<1> HIDE DEF es
<1>4. AgesStep
  BY <1>2, <1>3, BecomeAges
<1>5. ASSUME NEW j \in Ids
      PROVE  /\ EntryOK(entry'[j]) /\ Shut(entry[j], entry'[j]) /\ Uncounted(entry[j], entry'[j])
             /\ entry'[j].at = "working" => entry[j].at = "working" \/ gate.id = j
             /\ entry'[j].only /\ ~entry'[j].astray => entry'[j].status \notin Open
  <2>1. entry'[j] \in {es[j], NoEntry}
    BY <1>2, BecomeFacts
  <2> QED BY <1>3, <2>1, NoEntryFacts DEF Shut, Uncounted
<1>6. entry' \in [Ids -> EntryRow]
  <2>1. \A j \in Ids : entry'[j] \in EntryRow
    BY <1>5 DEF EntryOK
  <2> QED BY <1>2, <2>1, BecomeFacts
<1>7. GateStep
  BY <1>2, NoGateFacts DEF GateStep, AutoProposeConstants
<1>8. \A j \in Ids : ~Waits(entry', gate', j)
  BY <1>2, <1>5, NoGateFacts DEF Waits, AutoProposeConstants
<1> QED BY <1>2, <1>4, <1>5, <1>6, <1>7, <1>8 DEF Restarted, Shuts

\* What a step can be.
LEMMA StepKinds ==
    ASSUME WaitInv, AutoProposeConstants, [Next]_vars
    PROVE  \/ Lives /\ pass' = pass
           \/ \E c \in Threads : /\ Quiet /\ pass[c].pc \notin InHand
                                 /\ \E x : PassTo(c, x) /\ PassOK(x, entry) /\ Reads(pass[c], x)
           \/ \E c \in Threads : Lives /\ pass[c].pc \in InHand /\ Hands(c)
           \/ \E c \in Threads, i \in Ids : Creates(c, i)
           \/ \E i \in Ids : /\ OrderStep(i)
                             /\ \/ pass' = pass
                                \/ \E c \in Threads : pass[c].pc \in InHand /\ Hands(c)
           \/ Restarted
<1>t. TypesOK
  BY DEF WaitInv
<1>1. CASE UNCHANGED vars
  BY <1>t, <1>1, QuietLives DEF vars, Quiet
<1>2. ASSUME NEW c \in Threads, Step(c)
      PROVE  \/ Lives /\ pass' = pass
             \/ /\ Quiet /\ pass[c].pc \notin InHand
                /\ \E x : PassTo(c, x) /\ PassOK(x, entry) /\ Reads(pass[c], x)
             \/ Lives /\ pass[c].pc \in InHand /\ Hands(c)
             \/ \E i \in Ids : Creates(c, i)
             \/ \E i \in Ids : OrderStep(i) /\ pass[c].pc \in InHand /\ Hands(c)
  <2>1. CASE \/ \E riders \in BOOLEAN : StartPass(c, riders)
             \/ \E s \in Symbols, only \in BOOLEAN : Consider(c, s, only)
             \/ ReadHeld(c) \/ ReadContext(c) \/ ReadRows(c) \/ StandAside(c) \/ Admit(c)
             \/ ProposalFails(c) \/ EndPass(c)
    BY <1>t, <2>1, FreeSteps
  <2>2. CASE \E i \in Ids : Creates(c, i)
    BY <2>2
  <2>3. CASE AutoApprove(c) \/ Enqueue(c) \/ Withdraw(c)
    BY <1>t, <2>3, HandSteps
  <2>4. CASE ProcessItem(c)
    <3> DEFINE i == pass[c].id
    <3>1. pass[c].pc \in InHand /\ i \in Ids /\ EntryOK(entry[i]) /\ c \in Threads \cup {None}
      BY <1>t, <2>4, PassFacts DEF ProcessItem, At, InHand, TypesOK
    <3>2. CASE (Check(i, c) \/ Risk(i, c)) /\ pass' = pass
      BY <1>t, <3>1, <3>2, GateActs
    <3>3. CASE Submit(i, c) /\ (After(c, "placed") \/ After(c, "raised"))
      <4>1. OrderStep(i)
        BY <3>1, <3>3 DEF OrderStep
      <4>2. Shuts /\ ~Waits(entry', gate', i)
        <5>1. entry'[i].status \notin Open
          <6>1. entry' = [entry EXCEPT ![i] = Ordered(entry[i])]
            BY <3>3 DEF Submit, Record
          <6>2. entry'[i].status = "executed"
            BY <1>t, <3>1, <6>1 DEF TypesOK, EntryRow, Ordered
          <6> QED BY <6>2 DEF Open
        <5>2. Shuts /\ gate'.id # i
          BY <1>t, <3>1, <4>1, OrderFacts, NoGateFacts DEF AutoProposeConstants
        <5> QED BY <5>1, <5>2 DEF Waits
      <4>3. Hands(c)
        BY <1>t, <3>1, <3>3, <4>2, AfterFacts DEF Hands
      <4> QED BY <3>1, <4>1, <4>3
    <3>4. CASE SubmitFails(i, c) /\ After(c, "blocked")
      <4>1. OrderStep(i)
        BY <3>1, <3>4 DEF OrderStep
      <4>2. Shuts
        BY <1>t, <3>1, <4>1, OrderFacts
      <4>3. Hands(c)
        BY <1>t, <3>1, <3>4, <4>2, AfterFacts DEF Hands
      <4> QED BY <3>1, <4>1, <4>3
    <3>5. CASE (Block(i, c) \/ Raise(i, c)) /\ (After(c, "blocked") \/ After(c, "raised"))
      <4>1. Lives
        BY <1>t, <3>1, <3>5, GateActs
      <4>2. Hands(c)
        BY <1>t, <3>1, <3>5, <4>1, AfterFacts DEF Lives, Hands
      <4> QED BY <3>1, <4>1, <4>2
    <3>6. CASE /\ gate = NoGate /\ Quiet
               /\ After(c, IF entry[i].row \in {"none", "failed"} THEN "blocked" ELSE "placed")
      <4>1. Lives
        BY <1>t, <3>6, QuietLives
      <4>2. entry[i].row \notin {"none", "failed"} => ~Waits(entry', gate', i)
        BY <3>1, <3>6, NoGateFacts DEF Waits, Quiet, EntryOK, AutoProposeConstants
      <4>3. Hands(c)
        BY <1>t, <3>1, <3>6, <4>1, <4>2, AfterFacts DEF Lives, Hands
      <4> QED BY <3>1, <4>1, <4>3
    <3> HIDE DEF i
    <3>7. i = pass[c].id
      BY DEF i
    <3> QED BY <2>4, <3>2, <3>3, <3>4, <3>5, <3>6, <3>7 DEF ProcessItem, Quiet
  <2> QED BY <1>2, <2>1, <2>2, <2>3, <2>4 DEF Step, Creates
<1>3. ASSUME NEW i \in Ids, QueuePass(i)
      PROVE  (OrderStep(i) /\ pass' = pass) \/ (Lives /\ pass' = pass)
  <2>1. CASE Submit(i, None) \/ SubmitFails(i, None)
    BY <1>3, <2>1 DEF QueuePass, OrderStep
  <2>2. CASE Check(i, None) \/ Risk(i, None) \/ Block(i, None) \/ Raise(i, None)
    <3>1. Lives
      BY <1>t, <2>2, GateActs
    <3> QED BY <1>3, <3>1 DEF QueuePass
  <2> QED BY <1>3, <2>1, <2>2 DEF QueuePass
<1>4. CASE \/ \E i \in Ids : \/ HumanApproves(i) \/ HumanQueues(i) \/ Ends(i)
                             \/ Fills(i) \/ Dies(i) \/ Exits(i) \/ Synced(i)
           \/ \E i \in Ids, s \in Symbols : HumanTrades(i, s)
           \/ \E s \in Symbols : EtoroCloses(s) \/ Adopts(s)
           \/ Midnight
  BY <1>t, <1>4, OtherSteps
<1>5. CASE Restart
  BY <1>t, <1>5, RestartFacts
<1> QED BY <1>1, <1>2, <1>3, <1>4, <1>5 DEF Next

-----------------------------------------------------------------------------
(* Rule 6: no paper-only proposal waits *)

LEMMA WaitCreate ==
    ASSUME WaitInv, AutoProposeConstants, NEW c \in Threads, NEW i \in Ids, Creates(c, i)
    PROVE  WaitInv'
<1>1. PICK x : PassTo(c, x) /\ PassOK(x, entry') /\ InHandOrLost(c, i, x)
  BY CreateFacts DEF WaitInv
<1>2. /\ pass[c].pc = "create" /\ entry[i] = NoEntry /\ \A d \in Threads : pass[d].id # i
      /\ entry' \in [Ids -> EntryRow] /\ \A j \in Ids : EntryOK(entry'[j])
      /\ AgesStep /\ \A j \in Ids \ {i} : Shut(entry[j], entry'[j])
      /\ gate' = gate /\ gate.id # i /\ GateStep
  BY CreateFacts DEF WaitInv, Later
<1>3. pass'[c] = x /\ \A d \in Threads \ {c} : pass'[d] = pass[d]
  BY <1>1 DEF WaitInv, TypesOK, PassTo
<1>4. ASSUME NEW d \in Threads PROVE PassOK(pass'[d], entry')
  <2>1. CASE d # c
    <3>1. PassOK(pass[d], entry) /\ pass'[d] = pass[d]
      BY <1>3, <2>1 DEF WaitInv, TypesOK
    <3>2. pass[d].pc \in InHand => pass[d].id \in Ids \ {i}
      BY <1>2, <3>1 DEF PassOK, PassRow
    <3>3. \A j \in Ids \ {i} : entry'[j].only => entry[j].only
      BY <1>2, NoEntryFacts DEF Shut
    <3> QED BY <3>1, <3>2, <3>3 DEF PassOK
  <2> QED BY <1>1, <1>3, <2>1
<1>5. TypesOK'
  <2>1. \A d \in Threads : pass'[d] \in PassRow
    BY <1>4 DEF PassOK
  <2>2. pass' \in [Threads -> PassRow]
    BY <1>1, <2>1 DEF WaitInv, TypesOK, PassTo
  <2> QED BY <1>2, <1>4, <2>2 DEF TypesOK, AgesStep, GateStep
<1>6. ASSUME NEW j \in Ids, Waits(entry', gate', j)
      PROVE  \E d \in Threads : pass'[d].id = j /\ pass'[d].pc \in InHand
  <2>1. CASE j = i
    BY <1>1, <1>3, <1>6, <2>1 DEF InHand, InHandOrLost, Waits
  <2>2. CASE j # i
    <3>1. Waits(entry, gate, j)
      BY <1>2, <1>6, <2>2, NoEntryFacts DEF Shut, Waits, Open
    <3>2. PICK d \in Threads : pass[d].id = j /\ pass[d].pc \in InHand
      BY <3>1 DEF WaitInv, Handled
    <3> QED BY <1>2, <1>3, <3>2 DEF InHand
  <2> QED BY <2>1, <2>2
<1> QED BY <1>5, <1>6 DEF WaitInv, Handled

LEMMA WaitRestart == ASSUME WaitInv, Restarted PROVE WaitInv'
<1>1. \A c \in Threads : pass'[c] = NoPass
  BY DEF Restarted
<1>2. /\ pass' \in [Threads -> PassRow]
      /\ \A c \in Threads : PassOK(pass'[c], entry')
  BY <1>1, NoPassFacts DEF Restarted, PassOK, InHand
<1>3. TypesOK'
  BY <1>2 DEF TypesOK, Restarted, Shuts, AgesStep, GateStep
<1> QED BY <1>3 DEF WaitInv, Handled, Restarted

LEMMA WaitNext == WaitInv /\ AutoProposeConstants /\ [Next]_vars => WaitInv'
<1> SUFFICES ASSUME WaitInv, AutoProposeConstants, [Next]_vars PROVE WaitInv'
  OBVIOUS
<1>1. CASE Lives /\ pass' = pass
  BY <1>1, PassStays DEF Lives
<1>2. CASE \E c \in Threads : /\ Quiet /\ pass[c].pc \notin InHand
                              /\ \E x : PassTo(c, x) /\ PassOK(x, entry) /\ Reads(pass[c], x)
  BY <1>2, FreeMoves
<1>3. CASE \E c \in Threads : Lives /\ pass[c].pc \in InHand /\ Hands(c)
  BY <1>3, PassMoves DEF Lives, Hands
<1>4. CASE \E c \in Threads, i \in Ids : Creates(c, i)
  BY <1>4, WaitCreate
<1>5. CASE \E i \in Ids : /\ OrderStep(i)
                          /\ \/ pass' = pass
                             \/ \E c \in Threads : pass[c].pc \in InHand /\ Hands(c)
  <2>1. Shuts
    BY <1>5, OrderFacts DEF WaitInv
  <2> QED BY <1>5, <2>1, PassStays, PassMoves DEF Hands
<1>6. CASE Restarted
  BY <1>6, WaitRestart
<1> QED BY <1>1, <1>2, <1>3, <1>4, <1>5, <1>6, StepKinds

LEMMA WaitInit == Init /\ AutoProposeConstants => WaitInv
<1> SUFFICES ASSUME Init, AutoProposeConstants PROVE WaitInv
  OBVIOUS
<1>1. (\A i \in Ids : entry[i] = NoEntry) /\ gate = NoGate
  BY DEF Init
<1>2. \A c \in Threads : pass[c] = NoPass
  BY DEF Init
<1>3. entry \in [Ids -> EntryRow] /\ pass \in [Threads -> PassRow]
  BY NoEntryFacts, NoPassFacts DEF Init
<1>4. \A c \in Threads : PassOK(pass[c], entry)
  BY <1>2, NoPassFacts DEF PassOK, InHand
<1>5. AgesOK(newer, entry)
  BY <1>1, NoEntryFacts DEF Init, AgesOK
<1> QED BY <1>1, <1>3, <1>4, <1>5, NoEntryFacts, NoGateFacts DEF WaitInv, TypesOK, Handled, Waits

LEMMA WaitAlways == Spec => []WaitInv
<1>1. AutoProposeConstants
  BY AutoProposeConstants
<1> QED BY <1>1, WaitInit, WaitNext, PTL DEF Spec

\* Outside the pass that makes it a paper-only proposal is open only when its withdrawal failed, or
\* an exception before it or the death of the process kept the pass from it (_withdraw, the
\* refusals of approve_proposal): for any number of threads, entries, symbols and faults.
THEOREM PaperOnlyNeverWaits == Spec => []OnlyNeverWaits
<1>1. WaitInv => OnlyNeverWaits
  BY DEF WaitInv, Handled, Waits, OnlyNeverWaits, OpenProposals, Known, Open, InHand
<1> QED BY <1>1, WaitAlways, PTL

-----------------------------------------------------------------------------
(* Rule 3: no paper-only order in a symbol of the eToro account *)

\* Since its check the entry under the lock has no eToro position but one that was taken up.
Guarded == gate.id \in Ids /\ entry[gate.id].only /\ ~gate.adopted => entry[gate.id].symbol \notin etoro

AvoidInv == WaitInv /\ Guarded

\* What a step does to the lock and the eToro account.
EtoroStep ==
    \/ gate' = NoGate
    \/ /\ gate'.id = gate.id
       /\ gate'.adopted \/ (gate'.adopted = gate.adopted /\ etoro' \subseteq etoro)
    \/ etoro' = etoro /\ gate'.id \in Ids /\ ~HeldReasons(entry[gate'.id])

LEMMA EtoroSteps ==
    ASSUME TypesOK, AutoProposeConstants, [Next]_vars
    PROVE  EtoroStep
<1> DEFINE Calm == gate' = gate /\ etoro' = etoro
<1>0. gate \in GateRow
  BY DEF TypesOK, GateOK
<1>1. Calm => EtoroStep
  BY DEF EtoroStep
<1>2. ASSUME NEW i \in Ids, NEW by,
             Check(i, by) \/ Risk(i, by) \/ Submit(i, by) \/ SubmitFails(i, by) \/ Block(i, by) \/ Raise(i, by)
      PROVE  EtoroStep
  <2>1. CASE Check(i, by)
    BY <2>1 DEF Check, NoGate, EtoroStep
  <2>2. CASE Risk(i, by)
    BY <1>0, <2>2 DEF Risk, GateRow, EtoroStep
  <2>3. CASE Submit(i, by) \/ SubmitFails(i, by) \/ Block(i, by) \/ Raise(i, by)
    BY <2>3 DEF Submit, SubmitFails, Block, Raise, EtoroStep
  <2> QED BY <1>2, <2>1, <2>2, <2>3
<1>3. ASSUME NEW c \in Threads, Step(c) PROVE EtoroStep
  <2>1. CASE \/ \E riders \in BOOLEAN : StartPass(c, riders)
             \/ \E s \in Symbols, only \in BOOLEAN : Consider(c, s, only)
             \/ ReadHeld(c) \/ ReadContext(c) \/ ReadRows(c) \/ StandAside(c) \/ Admit(c)
    BY <2>1 DEF StartPass, Consider, ReadHeld, ReadContext, ReadRows, StandAside, Admit, EtoroStep
  <2>2. CASE \/ \E i \in Ids : Creates(c, i)
             \/ ProposalFails(c) \/ AutoApprove(c) \/ Enqueue(c) \/ Withdraw(c) \/ EndPass(c)
    BY <2>2 DEF Creates, CreateProposal, LoseProposal, Proposes, ProposalFails, AutoApprove, Enqueue, Withdraw,
              EndPass, EtoroStep
  <2>3. CASE ProcessItem(c)
    <3>1. pass[c].id \in Ids
      BY <2>3, PassFacts DEF ProcessItem, At, InHand
    <3>2. \/ Calm
          \/ \E i \in Ids : Check(i, c) \/ Risk(i, c) \/ Submit(i, c) \/ SubmitFails(i, c)
                            \/ Block(i, c) \/ Raise(i, c)
      BY <2>3, <3>1 DEF ProcessItem
    <3> QED BY <1>1, <1>2, <3>2
  <2> QED BY <1>3, <2>1, <2>2, <2>3 DEF Step, Creates
<1>4. ASSUME NEW i \in Ids, QueuePass(i) PROVE EtoroStep
  <2>1. \/ Check(i, None) \/ Risk(i, None) \/ Submit(i, None) \/ SubmitFails(i, None)
        \/ Block(i, None) \/ Raise(i, None)
    BY <1>4 DEF QueuePass
  <2> QED BY <1>2, <2>1
<1>5. CASE \/ \E i \in Ids : HumanApproves(i) \/ HumanQueues(i) \/ Ends(i) \/ Fills(i) \/ Dies(i)
                             \/ Exits(i) \/ Synced(i)
           \/ \E i \in Ids, s \in Symbols : HumanTrades(i, s)
           \/ Midnight
  BY <1>5 DEF HumanApproves, HumanQueues, Ends, Fills, Dies, Exits, Synced, HumanTrades, Midnight, EtoroStep
<1>6. CASE \E s \in Symbols : EtoroCloses(s) \/ Adopts(s)
  BY <1>0, <1>6 DEF EtoroCloses, Adopts, GateRow, EtoroStep
<1>7. CASE Restart
  BY <1>7 DEF Restart, EtoroStep
<1>8. CASE UNCHANGED vars
  BY <1>8 DEF vars, EtoroStep
<1>9. \/ \E c \in Threads : Step(c)
      \/ \E i \in Ids : QueuePass(i)
      \/ \E i \in Ids : HumanApproves(i) \/ HumanQueues(i) \/ Ends(i) \/ Fills(i) \/ Dies(i)
                        \/ Exits(i) \/ Synced(i)
      \/ \E i \in Ids, s \in Symbols : HumanTrades(i, s)
      \/ \E s \in Symbols : EtoroCloses(s) \/ Adopts(s)
      \/ Midnight \/ Restart \/ UNCHANGED vars
  BY DEF Next
<1> QED BY <1>3, <1>4, <1>5, <1>6, <1>7, <1>8, <1>9

LEMMA AvoidNext == ASSUME AvoidInv, AutoProposeConstants, [Next]_vars PROVE AvoidInv'
<1>1. WaitInv /\ WaitInv' /\ TypesOK
  BY WaitNext DEF AvoidInv, WaitInv
<1>2. ASSUME NEW j \in Ids, gate'.id = j PROVE Shut(entry[j], entry'[j])
  <2>1. Shuts => Shut(entry[j], entry'[j])
    BY DEF Shuts
  <2>2. \A c \in Threads, i \in Ids : Creates(c, i) => Shut(entry[j], entry'[j])
    BY <1>1, <1>2, CreateFacts DEF Later
  <2>3. \A i \in Ids : OrderStep(i) => Shuts
    BY <1>1, OrderFacts
  <2>4. Quiet => Shuts
    BY <1>1, QuietLives DEF Lives
  <2>5. (Lives => Shuts) /\ (Restarted => Shuts)
    BY DEF Lives, Restarted
  <2> QED BY <1>1, <2>1, <2>2, <2>3, <2>4, <2>5, StepKinds
<1>3. ASSUME gate'.id \in Ids, entry'[gate'.id].only, ~gate'.adopted
      PROVE  entry'[gate'.id].symbol \notin etoro'
  <2>1. entry[gate'.id].only /\ entry'[gate'.id].symbol = entry[gate'.id].symbol
    BY <1>2, <1>3, NoEntryFacts DEF Shut
  <2>2. gate' # NoGate
    BY <1>3, NoGateFacts DEF AutoProposeConstants
  <2>3. CASE /\ gate'.id = gate.id
             /\ gate'.adopted \/ (gate'.adopted = gate.adopted /\ etoro' \subseteq etoro)
    BY <1>3, <2>1, <2>3 DEF AvoidInv, Guarded
  <2>4. CASE etoro' = etoro /\ gate'.id \in Ids /\ ~HeldReasons(entry[gate'.id])
    BY <2>1, <2>4 DEF HeldReasons
  <2> QED BY <1>1, <2>2, <2>3, <2>4, EtoroSteps DEF EtoroStep
<1> QED BY <1>1, <1>3 DEF AvoidInv, Guarded

LEMMA AvoidInit == Init /\ AutoProposeConstants => AvoidInv
BY WaitInit, NoGateFacts DEF Init, AvoidInv, Guarded, AutoProposeConstants

\* The records of the mirror are read again under _ENTRY_LOCK (paper_only_held_reasons in
\* process_queue_item), which the copies of other entries need too: from then to the order only a
\* position that the mirror did not make comes in, for any number of threads, faults and restarts.
THEOREM PaperOnlyAvoidsEtoro == Spec => OnlyAvoidsEtoro
<1> DEFINE Avoids == \A i \in Ids : entry[i].at = "none" /\ entry'[i].at = "working" /\ entry[i].only
                                      => entry[i].symbol \notin etoro \/ gate.adopted
<1>1. ASSUME AvoidInv, AutoProposeConstants, [Next]_vars PROVE [Avoids]_vars
  <2>t. WaitInv /\ TypesOK
    BY <1>1 DEF AvoidInv, WaitInv
  <2>1. SUFFICES ASSUME NEW i \in Ids, entry[i].at = "none", entry'[i].at = "working", entry[i].only
                 PROVE  gate.id = i
    BY <1>1 DEF AvoidInv, Guarded
  <2>2. CASE Lives \/ Quiet
    BY <2>t, <2>1, <2>2, QuietLives, <1>1 DEF Lives, Later
  <2>3. ASSUME NEW c \in Threads, NEW j \in Ids, Creates(c, j) PROVE FALSE
    BY <1>1, <2>t, <2>1, <2>3, CreateFacts DEF Later
  <2>4. ASSUME NEW j \in Ids, OrderStep(j) PROVE gate.id = i
    BY <1>1, <2>t, <2>1, <2>4, OrderFacts
  <2>5. CASE Restarted
    BY <2>1, <2>5 DEF Restarted
  <2> QED BY <1>1, <2>t, <2>2, <2>3, <2>4, <2>5, StepKinds
<1>2. AutoProposeConstants
  BY AutoProposeConstants
<1>3. AvoidInv /\ [Next]_vars => [Avoids]_vars
  BY <1>1, <1>2
<1>4. OnlyAvoidsEtoro <=> [][Avoids]_vars
  BY DEF OnlyAvoidsEtoro
<1>5. Init => AvoidInv
  BY <1>2, AvoidInit
<1>6. AvoidInv /\ [Next]_vars => AvoidInv'
  BY <1>2, AvoidNext
<1> HIDE DEF Avoids
<1> QED BY <1>3, <1>4, <1>5, <1>6, PTL DEF Spec

-----------------------------------------------------------------------------
(* What a pass was promised *)

\* The symbols that fit the rules still have room, up to the order they lead to.
Promised(p, rooms, es, g) ==
    /\ p.fits # None => p.fits \subseteq rooms
    /\ p.pc = "create" /\ p.only => p.symbol \in rooms
    /\ p.pc \in InHand /\ p.only =>
         /\ p.fits = None
         /\ Waits(es, g, p.id) /\ es[p.id].row = "none" => es[p.id].symbol \in rooms

\* The scheduler's passes alone, none of them beside a scan request's.
OneThread == \A c, d \in Threads : c = d

OnlyPlaced(i) == OrderStep(i) /\ entry[i].only /\ ~entry[i].astray

LEMMA PromiseCarries ==
    ASSUME Shuts, NEW p, PassOK(p, entry), NEW R, NEW S, R \subseteq S, Promised(p, R, entry, gate),
           NEW x, x = p \/ (p.pc \in InHand /\ Carries(p, x))
    PROVE  Promised(x, S, entry', gate')
<1>1. p.pc \in InHand => p.id \in Ids
  BY DEF PassOK, PassRow
<1>2. \A j \in Ids : Waits(entry', gate', j) /\ entry'[j].row = "none"
         => Waits(entry, gate, j) /\ entry[j].row = "none" /\ entry'[j].symbol = entry[j].symbol
  <2> SUFFICES ASSUME NEW j \in Ids, Waits(entry', gate', j), entry'[j].row = "none"
               PROVE  Waits(entry, gate, j) /\ entry[j].row = "none" /\ entry'[j].symbol = entry[j].symbol
    OBVIOUS
  <2>1. Waits(entry, gate, j) /\ entry'[j].symbol = entry[j].symbol
    BY WaitedBefore
  <2>2. entry[j].row = "none"
    BY NoEntryFacts DEF Shuts, Shut, Waits
  <2> QED BY <2>1, <2>2
<1> QED BY <1>1, <1>2 DEF Promised, Carries, InHand

\* A step other than a paper-only order keeps the promise that its reads and the room keep.
LEMMA PromiseKept ==
    ASSUME WaitInv, AutoProposeConstants, OneThread, [Next]_vars, NEW R, NEW S, R \subseteq S,
           \A c \in Threads : Promised(pass[c], R, entry, gate),
           \A c \in Threads : \/ pass'[c].fits \in {None, pass[c].fits}
                              \/ pass'[c].fits \subseteq S
    PROVE  \A c \in Threads : Promised(pass'[c], S, entry', gate')
<1> SUFFICES ASSUME NEW c \in Threads PROVE Promised(pass'[c], S, entry', gate')
  OBVIOUS
<1>0. \A d \in Threads : d = c
  BY DEF OneThread
<1>1. /\ TypesOK /\ PassOK(pass[c], entry) /\ Promised(pass[c], R, entry, gate)
      /\ \A x : PassTo(c, x) => pass'[c] = x
  BY DEF WaitInv, TypesOK, PassTo
<1>2. CASE Shuts /\ pass' = pass
  BY <1>1, <1>2, PromiseCarries
<1>3. ASSUME Quiet, pass[c].pc \notin InHand,
             NEW x, PassTo(c, x), PassOK(x, entry), Reads(pass[c], x)
      PROVE  Promised(pass'[c], S, entry', gate')
  <2>1. x.fits # None => x.fits \subseteq S
    BY <1>1, <1>3 DEF Promised
  <2>2. x.pc = "create" /\ x.only => x.symbol \in S
    BY <1>1, <1>3 DEF Promised, Reads
  <2> QED BY <1>1, <1>3, <2>1, <2>2 DEF Promised, Reads
<1>4. CASE Shuts /\ pass[c].pc \in InHand /\ Hands(c)
  <2>1. PICK x : PassTo(c, x) /\ Carries(pass[c], x)
    BY <1>4 DEF Hands
  <2> QED BY <1>1, <1>4, <2>1, PromiseCarries
<1>5. ASSUME NEW i \in Ids, Creates(c, i) PROVE Promised(pass'[c], S, entry', gate')
  <2>1. PICK x : PassTo(c, x) /\ PassOK(x, entry') /\ InHandOrLost(c, i, x)
    BY <1>1, <1>5, CreateFacts
  <2>2. /\ pass[c].pc = "create" /\ (entry'[i].only => pass[c].only)
        /\ entry'[i].only => entry'[i].symbol = pass[c].symbol
    BY <1>1, <1>5, CreateFacts
  <2> QED BY <1>1, <2>1, <2>2 DEF Promised, InHand, InHandOrLost, Waits
<1>6. \A i \in Ids : OrderStep(i) => Shuts
  BY <1>1, OrderFacts
<1>7. Lives => Shuts
  BY DEF Lives
<1>9. CASE Restarted
  BY <1>9, NoPassFacts DEF Restarted, Promised, InHand
<1>8. \/ Shuts /\ pass' = pass
      \/ Restarted
      \/ /\ Quiet /\ pass[c].pc \notin InHand
         /\ \E x : PassTo(c, x) /\ PassOK(x, entry) /\ Reads(pass[c], x)
      \/ Shuts /\ pass[c].pc \in InHand /\ Hands(c)
      \/ \E i \in Ids : Creates(c, i)
  BY <1>0, <1>6, <1>7, StepKinds
<1> QED BY <1>2, <1>3, <1>4, <1>5, <1>8, <1>9

\* A paper-only order is the promised one, and nothing is promised after it.
LEMMA PromiseUsed ==
    ASSUME WaitInv, AutoProposeConstants, OneThread, [Next]_vars, NEW R, NEW S,
           \A c \in Threads : Promised(pass[c], R, entry, gate), NEW i \in Ids, OnlyPlaced(i)
    PROVE  /\ entry[i].symbol \in R
           /\ \A c \in Threads : Promised(pass'[c], S, entry', gate') /\ pass'[c].pc # "rows"
<1>1. /\ TypesOK /\ OrderStep(i) /\ Waits(entry, gate, i) /\ entry[i].row = "none"
      /\ entry'[i].row # "none" /\ gate # NoGate /\ gate' # gate
  <2>1. /\ TypesOK /\ OrderStep(i) /\ entry[i].only /\ ~entry[i].astray
    BY DEF WaitInv, OnlyPlaced
  <2>2. gate.id = i /\ gate' = NoGate /\ i # NoGate.id
    BY <2>1, OrderFacts, NoGateFacts DEF AutoProposeConstants
  <2> QED BY <2>1, <2>2, OrderFacts DEF Waits
<1>2. PICK d \in Threads : pass[d].id = i /\ pass[d].pc \in InHand
  BY <1>1 DEF WaitInv, Handled
<1>3. /\ pass[d].only /\ pass[d].fits = None /\ entry[i].symbol \in R
      /\ \A x : PassTo(d, x) => pass'[d] = x
  BY <1>1, <1>2 DEF TypesOK, PassOK, Promised, PassTo, Waits
<1>4. \A c \in Threads : c = d
  BY DEF OneThread
<1>5. pass'[d] = pass[d] \/ Carries(pass[d], pass'[d])
  <2>1. \A j \in Ids : Creates(d, j) => pass[d].pc = "create"
    BY <1>1, CreateFacts
  <2>2. ~Restarted
    BY <1>1 DEF Restarted, Uncounted
  <2>3. pass[d].pc # "create"
    BY <1>2 DEF InHand
  <2>4. pass' = pass \/ Hands(d)
    BY <1>2, <1>4, <2>1, <2>2, <2>3, StepKinds
  <2> QED BY <1>3, <2>4 DEF Hands
<1>6. Promised(pass'[d], S, entry', gate') /\ pass'[d].pc # "rows"
  BY <1>1, <1>2, <1>3, <1>5 DEF Promised, Carries, InHand
<1> QED BY <1>3, <1>4, <1>6

\* What a pass takes over from its reads.
LEMMA ReadSteps ==
    ASSUME WaitInv, AutoProposeConstants, [Next]_vars, NEW c \in Threads
    PROVE  /\ pass'[c].pc = "rows" =>
                \/ pass'[c] = pass[c]
                \/ /\ entry' = entry /\ newer' = newer
                   /\ pass'[c].book.trades = TradesToday /\ pass'[c].book.held = Held
           /\ \/ pass'[c].fits \in {None, pass[c].fits}
              \/ /\ entry' = entry /\ newer' = newer /\ pass[c].pc = "rows"
                 /\ pass'[c].fits \subseteq Symbols
                 /\ \A s \in pass'[c].fits : /\ Headroom(pass[c].book, s)
                                             /\ BookHeadroom(pass[c].book, s)
<1> DEFINE Goal ==
             /\ pass'[c].pc = "rows" =>
                  \/ pass'[c] = pass[c]
                  \/ /\ entry' = entry /\ newer' = newer
                     /\ pass'[c].book.trades = TradesToday /\ pass'[c].book.held = Held
             /\ \/ pass'[c].fits \in {None, pass[c].fits}
                \/ /\ entry' = entry /\ newer' = newer /\ pass[c].pc = "rows"
                   /\ pass'[c].fits \subseteq Symbols
                   /\ \A s \in pass'[c].fits : /\ Headroom(pass[c].book, s)
                                               /\ BookHeadroom(pass[c].book, s)
<1>0. TypesOK
  BY DEF WaitInv
<1>1. ASSUME NEW d \in Threads, NEW x, PassTo(d, x)
      PROVE  pass'[c] = IF c = d THEN x ELSE pass[c]
  BY <1>0, <1>1 DEF TypesOK, PassTo
<1>2. ASSUME NEW d \in Threads, Quiet, NEW x, PassTo(d, x), PassOK(x, entry), Reads(pass[d], x)
      PROVE  Goal
  <2>1. CASE c # d
    BY <1>1, <1>2, <2>1
  <2>2. CASE c = d
    <3>1. pass'[c] = x
      BY <1>1, <1>2, <2>2
    <3>2. x.fits \in (SUBSET Symbols) \cup {None}
      BY <1>2 DEF PassOK, PassRow
    <3> QED BY <1>2, <2>2, <3>1, <3>2 DEF Reads, Quiet
  <2> QED BY <2>1, <2>2
<1>3. ASSUME NEW d \in Threads, Hands(d) PROVE Goal
  <2>1. PICK x : PassTo(d, x) /\ Carries(pass[d], x)
    BY <1>3 DEF Hands
  <2>2. x.pc # "rows" /\ x.fits \in {None, pass[d].fits}
    BY <2>1 DEF Carries, InHand
  <2> QED BY <1>1, <2>1, <2>2
<1>4. ASSUME NEW d \in Threads, NEW i \in Ids, Creates(d, i) PROVE Goal
  <2>1. PICK x : PassTo(d, x) /\ InHandOrLost(d, i, x)
    BY <1>0, <1>4, CreateFacts
  <2> QED BY <1>1, <2>1 DEF InHandOrLost
<1>5. pass' = pass => Goal
  OBVIOUS
<1>7. Restarted => Goal
  BY NoPassFacts DEF Restarted
<1> HIDE DEF Goal
<1>6. Goal
  BY <1>2, <1>3, <1>4, <1>5, <1>7, StepKinds
<1> QED BY <1>6 DEF Goal

\* No paper-only entry is placed.
NonePlaced ==
    \A j \in Ids : \/ Shut(entry[j], entry'[j]) /\ Uncounted(entry[j], entry'[j])
                   \/ entry'[j].row = "none"
                   \/ entry[j].row = "none" /\ ~(entry'[j].only /\ ~entry'[j].astray)

LEMMA EntryKinds ==
    ASSUME WaitInv, AutoProposeConstants, [Next]_vars
    PROVE  AgesStep /\ ((\E i \in Ids : OnlyPlaced(i)) \/ NonePlaced)
<1>0. TypesOK
  BY DEF WaitInv
<1>1. CASE Lives
  BY <1>1 DEF Lives, Shuts, Later, NonePlaced
<1>2. CASE Quiet
  BY <1>0, <1>1, <1>2, QuietLives
<1>3. CASE \E c \in Threads, i \in Ids : Creates(c, i)
  BY <1>0, <1>3, CreateFacts DEF NonePlaced, Later
<1>4. ASSUME NEW i \in Ids, OrderStep(i) PROVE AgesStep /\ (OnlyPlaced(i) \/ NonePlaced)
  <2>1. /\ Shuts /\ \A j \in Ids \ {i} : entry'[j] = entry[j]
        /\ entry[i].row = "none" /\ entry'[i].only = entry[i].only
        /\ entry'[i].astray = entry[i].astray
    BY <1>0, <1>4, OrderFacts
  <2>2. AgesStep
    BY <2>1 DEF Shuts
  <2>3. \A e : Shut(e, e) /\ Uncounted(e, e)
    BY Same DEF Later
  <2> QED BY <1>4, <2>1, <2>2, <2>3 DEF OnlyPlaced, NonePlaced
<1>5. CASE Restarted
  BY <1>5 DEF Restarted, Shuts, NonePlaced
<1> QED BY <1>1, <1>2, <1>3, <1>4, <1>5, StepKinds

-----------------------------------------------------------------------------
(* Rule 4: paper-only entries leave the day's last trades *)

GroupOnly(s) == {i \in OnlyToday : /\ GroupOf[entry[i].symbol] = GroupOf[s]
                                   /\ entry[i].row \in {"submitted", "filled"}}
\* The symbols for which the day has room for one more paper-only entry.
Rooms == {s \in Symbols : /\ Cardinality(OnlyToday) + 1 + Leave <= MaxTrades
                          /\ Cardinality(GroupOnly(s)) + 1 + LeaveInGroup <= GroupCap}

\* The day's trades that a pass has read are not fewer than the paper-only ones.
DayInv ==
    /\ WaitInv /\ OnlyLeavesDay
    /\ \A c \in Threads :
         /\ pass[c].pc = "rows" => Cardinality(OnlyToday) <= pass[c].book.trades
         /\ Promised(pass[c], Rooms, entry, gate)

LEMMA DayFinite ==
    ASSUME AutoProposeConstants
    PROVE  /\ IsFiniteSet(OnlyToday) /\ Cardinality(OnlyToday) \in Nat
           /\ \A s : IsFiniteSet(GroupOnly(s)) /\ Cardinality(GroupOnly(s)) \in Nat
<1>1. OnlyToday \subseteq Ids /\ \A s : GroupOnly(s) \subseteq OnlyToday
  BY DEF OnlyToday, GroupOnly, Known
<1>2. IsFiniteSet(OnlyToday)
  BY <1>1, FS_Subset DEF AutoProposeConstants
<1> QED BY <1>1, <1>2, FS_Subset, FS_CardinalityType

LEMMA LeavesDay ==
    OnlyLeavesDay <=> /\ Cardinality(OnlyToday) + Leave <= MaxTrades
                      /\ \A s \in Symbols : Cardinality(GroupOnly(s)) + LeaveInGroup <= GroupCap
BY DEF OnlyLeavesDay, GroupOnly

\* No paper-only entry is placed: what had room has room.
NoneNew ==
    \A j \in OnlyToday' : /\ j \in OnlyToday /\ entry'[j].symbol = entry[j].symbol
                          /\ entry'[j].row \in {"submitted", "filled"}
                               => entry[j].row \in {"submitted", "filled"}

LEMMA NoneNewFacts ==
    ASSUME AutoProposeConstants, NoneNew
    PROVE  /\ Cardinality(OnlyToday') <= Cardinality(OnlyToday)
           /\ Rooms \subseteq Rooms' /\ (OnlyLeavesDay => OnlyLeavesDay')
<1>1. OnlyToday' \subseteq OnlyToday /\ \A s \in Symbols : GroupOnly(s)' \subseteq GroupOnly(s)
  BY DEF NoneNew, GroupOnly
<1>2. Cardinality(OnlyToday') <= Cardinality(OnlyToday) /\ Cardinality(OnlyToday') \in Nat
  BY <1>1, DayFinite, FS_Subset, FS_CardinalityType
<1>3. \A s \in Symbols : /\ Cardinality(GroupOnly(s)') <= Cardinality(GroupOnly(s))
                         /\ Cardinality(GroupOnly(s)') \in Nat
  BY <1>1, DayFinite, FS_Subset, FS_CardinalityType
<1>4. Rooms \subseteq Rooms'
  BY <1>2, <1>3, DayFinite DEF Rooms, AutoProposeConstants
<1>5. OnlyLeavesDay => OnlyLeavesDay'
  <2> SUFFICES ASSUME OnlyLeavesDay PROVE OnlyLeavesDay'
    OBVIOUS
  <2>1. Cardinality(OnlyToday') + Leave <= MaxTrades
    BY <1>2, LeavesDay, DayFinite DEF AutoProposeConstants
  <2>2. \A s \in Symbols : Cardinality(GroupOnly(s)') + LeaveInGroup <= GroupCap
    BY <1>3, LeavesDay, DayFinite DEF AutoProposeConstants
  <2> QED BY <2>1, <2>2 DEF OnlyLeavesDay, GroupOnly
<1> QED BY <1>2, <1>4, <1>5

LEMMA NoneNewWhen == NonePlaced => NoneNew
<1> SUFFICES ASSUME NonePlaced, NEW j \in OnlyToday'
             PROVE  /\ j \in OnlyToday /\ entry'[j].symbol = entry[j].symbol
                    /\ entry'[j].row \in {"submitted", "filled"}
                         => entry[j].row \in {"submitted", "filled"}
  BY DEF NoneNew
<1>1. /\ j \in Ids /\ entry'[j].symbol # None /\ entry'[j].only /\ ~entry'[j].astray
      /\ entry'[j].row # "none" /\ entry'[j].today
  BY DEF OnlyToday, Known
<1>2. Shut(entry[j], entry'[j]) /\ Uncounted(entry[j], entry'[j])
  BY <1>1 DEF NonePlaced
<1>3. /\ entry'[j].symbol = entry[j].symbol /\ entry[j].today /\ entry[j].row # "none"
      /\ entry'[j].row \in {"submitted", "filled"} => entry[j].row \in {"submitted", "filled"}
  BY <1>1, <1>2 DEF Uncounted
<1>4. entry[j].only /\ ~entry[j].astray
  BY <1>1, <1>2, NoEntryFacts DEF Shut
<1> QED BY <1>1, <1>3, <1>4 DEF OnlyToday, Known

LEMMA OneMore ==
    ASSUME NEW S, IsFiniteSet(S), NEW i
    PROVE  /\ IsFiniteSet(S \cup {i}) /\ Cardinality(S \cup {i}) \in Nat
           /\ Cardinality(S \cup {i}) <= Cardinality(S) + 1
<1>1. /\ IsFiniteSet(S \cup {i})
      /\ Cardinality(S \cup {i}) = IF i \in S THEN Cardinality(S) ELSE Cardinality(S) + 1
  BY FS_AddElement
<1>2. Cardinality(S) \in Nat /\ Cardinality(S \cup {i}) \in Nat
  BY <1>1, FS_CardinalityType
<1> QED BY <1>1, <1>2

\* An order of a paper-only entry takes the room its pass has found.
LEMMA DayTaken ==
    ASSUME DayInv, AutoProposeConstants, NEW i \in Ids, OrderStep(i), entry[i].symbol \in Rooms
    PROVE  OnlyLeavesDay'
<1> DEFINE sym == entry[i].symbol
<1>1. /\ \A j \in Ids \ {i} : entry'[j] = entry[j]
      /\ entry'[i].symbol = sym
  BY OrderFacts DEF DayInv, WaitInv
<1>2. OnlyToday' \subseteq OnlyToday \cup {i}
  BY <1>1 DEF OnlyToday, Known
<1>3. sym \in Symbols /\ Cardinality(OnlyToday) + 1 + Leave <= MaxTrades
      /\ Cardinality(GroupOnly(sym)) + 1 + LeaveInGroup <= GroupCap
  BY DEF Rooms
<1> HIDE DEF sym
<1>4. Cardinality(OnlyToday') + Leave <= MaxTrades
  <2>1. /\ IsFiniteSet(OnlyToday \cup {i}) /\ Cardinality(OnlyToday \cup {i}) <= Cardinality(OnlyToday) + 1
        /\ Cardinality(OnlyToday \cup {i}) \in Nat
    BY DayFinite, OneMore
  <2>2. Cardinality(OnlyToday') <= Cardinality(OnlyToday \cup {i}) /\ Cardinality(OnlyToday') \in Nat
    BY <1>2, <2>1, FS_Subset, FS_CardinalityType
  <2> QED BY <1>3, <2>1, <2>2, DayFinite DEF AutoProposeConstants
<1>5. ASSUME NEW s \in Symbols PROVE Cardinality(GroupOnly(s)') + LeaveInGroup <= GroupCap
  <2>1. CASE GroupOf[sym] = GroupOf[s]
    <3>1. GroupOnly(s) = GroupOnly(sym)
      BY <2>1 DEF GroupOnly
    <3>2. GroupOnly(s)' \subseteq GroupOnly(s) \cup {i}
      BY <1>1, <1>2 DEF GroupOnly, OnlyToday, Known
    <3>3. /\ IsFiniteSet(GroupOnly(s) \cup {i})
          /\ Cardinality(GroupOnly(s) \cup {i}) <= Cardinality(GroupOnly(s)) + 1
          /\ Cardinality(GroupOnly(s) \cup {i}) \in Nat
      BY DayFinite, OneMore
    <3>4. /\ Cardinality(GroupOnly(s)') <= Cardinality(GroupOnly(s) \cup {i})
          /\ Cardinality(GroupOnly(s)') \in Nat
      BY <3>2, <3>3, FS_Subset, FS_CardinalityType
    <3> QED BY <1>3, <3>1, <3>3, <3>4, DayFinite DEF AutoProposeConstants
  <2>2. CASE GroupOf[sym] # GroupOf[s]
    <3>1. GroupOnly(s)' \subseteq GroupOnly(s)
      BY <1>1, <1>2, <2>2 DEF GroupOnly, OnlyToday, Known
    <3>2. Cardinality(GroupOnly(s)') <= Cardinality(GroupOnly(s)) /\ Cardinality(GroupOnly(s)') \in Nat
      BY <3>1, DayFinite, FS_Subset, FS_CardinalityType
    <3>3. Cardinality(GroupOnly(s)) + LeaveInGroup <= GroupCap
      BY LeavesDay DEF DayInv
    <3> QED BY <3>2, <3>3, DayFinite DEF AutoProposeConstants
  <2> QED BY <2>1, <2>2
<1> QED BY <1>4, <1>5 DEF OnlyLeavesDay, GroupOnly

\* What a pass reads of the day leaves room.
LEMMA DayReads ==
    ASSUME DayInv, AutoProposeConstants, NEW c \in Threads
    PROVE  /\ Cardinality(OnlyToday) <= TradesToday
           /\ pass[c].pc = "rows" => \A s \in Symbols : Headroom(pass[c].book, s) => s \in Rooms
<1>1. Cardinality(OnlyToday) <= TradesToday
  <2>1. IsFiniteSet({i \in Known : entry[i].row # "none" /\ entry[i].today})
    BY FS_Subset DEF AutoProposeConstants, Known
  <2>2. OnlyToday \subseteq {i \in Known : entry[i].row # "none" /\ entry[i].today}
    BY DEF OnlyToday
  <2> QED BY <2>1, <2>2, FS_Subset DEF TradesToday
<1>2. ASSUME pass[c].pc = "rows", NEW s \in Symbols, Headroom(pass[c].book, s) PROVE s \in Rooms
  <2>1. Cardinality(OnlyToday) <= pass[c].book.trades /\ pass[c].book.trades \in Nat
    BY <1>2 DEF DayInv, WaitInv, TypesOK, PassOK
  <2>2. GroupOnly(s) \subseteq {i \in Known : /\ entry[i].row \in {"submitted", "filled"}
                                              /\ entry[i].today
                                              /\ GroupOf[entry[i].symbol] = GroupOf[s]}
    BY DEF GroupOnly, OnlyToday
  <2>3. IsFiniteSet({i \in Known : /\ entry[i].row \in {"submitted", "filled"}
                                   /\ entry[i].today
                                   /\ GroupOf[entry[i].symbol] = GroupOf[s]})
    BY FS_Subset DEF AutoProposeConstants, Known
  <2>4. Cardinality(GroupOnly(s)) <= GroupEntries(s) /\ GroupEntries(s) \in Nat
    BY <2>2, <2>3, FS_Subset, FS_CardinalityType DEF GroupEntries
  <2> QED BY <1>2, <2>1, <2>4, DayFinite DEF Rooms, Headroom, AutoProposeConstants
<1> QED BY <1>1, <1>2

LEMMA DayNext ==
    ASSUME DayInv, AutoProposeConstants, OneThread, [Next]_vars
    PROVE  DayInv'
<1>1. /\ WaitInv /\ WaitInv'
      /\ \A c \in Threads : Promised(pass[c], Rooms, entry, gate)
  BY WaitNext DEF DayInv
<1>2. CASE \E i \in Ids : OnlyPlaced(i)
  <2>1. PICK i \in Ids : OnlyPlaced(i)
    BY <1>2
  <2>2. /\ entry[i].symbol \in Rooms
        /\ \A c \in Threads : Promised(pass'[c], Rooms', entry', gate') /\ pass'[c].pc # "rows"
    BY <1>1, <2>1, PromiseUsed
  <2>3. OnlyLeavesDay'
    BY <2>1, <2>2, DayTaken DEF OnlyPlaced
  <2> QED BY <1>1, <2>2, <2>3 DEF DayInv
<1>3. CASE ~\E i \in Ids : OnlyPlaced(i)
  <2>1. NoneNew
    BY <1>1, <1>3, EntryKinds, NoneNewWhen
  <2>2. /\ Cardinality(OnlyToday') <= Cardinality(OnlyToday)
        /\ Rooms \subseteq Rooms' /\ OnlyLeavesDay'
    BY <2>1, NoneNewFacts DEF DayInv
  <2>3. Cardinality(OnlyToday') \in Nat /\ Cardinality(OnlyToday) \in Nat
    <3>1. OnlyToday' \subseteq OnlyToday
      BY <2>1 DEF NoneNew
    <3> QED BY <3>1, DayFinite, FS_Subset, FS_CardinalityType
  <2>4. ASSUME NEW c \in Threads, pass'[c].pc = "rows"
        PROVE  Cardinality(OnlyToday') <= pass'[c].book.trades
    <3>1. CASE pass'[c] = pass[c]
      <4>1. Cardinality(OnlyToday) <= pass[c].book.trades /\ pass[c].book.trades \in Nat
        BY <2>4, <3>1 DEF DayInv, WaitInv, TypesOK, PassOK
      <4> QED BY <2>2, <2>3, <3>1, <4>1
    <3>2. CASE pass'[c].book.trades = TradesToday
      <4>1. Cardinality(OnlyToday) <= TradesToday /\ TradesToday \in Nat
        BY DayReads, NowFacts DEF DayInv, WaitInv
      <4> QED BY <2>2, <2>3, <3>2, <4>1
    <3> QED BY <1>1, <2>4, <3>1, <3>2, ReadSteps
  <2>5. ASSUME NEW c \in Threads
        PROVE  pass'[c].fits \in {None, pass[c].fits} \/ pass'[c].fits \subseteq Rooms'
    BY <1>1, <2>2, DayReads, ReadSteps
  <2>6. \A c \in Threads : Promised(pass'[c], Rooms', entry', gate')
    BY <1>1, <2>2, <2>5, PromiseKept
  <2> QED BY <1>1, <2>2, <2>4, <2>6 DEF DayInv
<1> QED BY <1>2, <1>3

LEMMA DayInit ==
    ASSUME Init, AutoProposeConstants, Leave <= MaxTrades, LeaveInGroup <= GroupCap
    PROVE  DayInv
<1>1. OnlyToday = {} /\ \A s : GroupOnly(s) = {}
  BY NoEntryFacts DEF Init, OnlyToday, GroupOnly, Known
<1>2. OnlyLeavesDay
  BY <1>1, LeavesDay, FS_EmptySet DEF AutoProposeConstants
<1>3. \A c \in Threads : pass[c].pc # "rows" /\ Promised(pass[c], Rooms, entry, gate)
  BY NoPassFacts DEF Init, Promised, InHand
<1> QED BY <1>2, <1>3, WaitInit DEF DayInv

\* While no other pass runs beside it, and the settings leave anything at all, the paper-only
\* entries that have not gone astray leave the day's last LEAVE_FOR_ETORO trades and each group's
\* last LEAVE_IN_GROUP entries, whatever fails: _headroom, read before the proposal is made, holds
\* until its order.
THEOREM PaperOnlyLeavesDay ==
    ASSUME OneThread, Leave <= MaxTrades, LeaveInGroup <= GroupCap
    PROVE  Spec => []OnlyLeavesDay
<1>1. AutoProposeConstants
  BY AutoProposeConstants
<1>2. Init => DayInv
  BY <1>1, DayInit
<1>3. DayInv /\ [Next]_vars => DayInv'
  BY <1>1, DayNext
<1>4. DayInv => OnlyLeavesDay
  BY DEF DayInv
<1> QED BY <1>2, <1>3, <1>4, PTL DEF Spec

-----------------------------------------------------------------------------
(* Rule 5: paper-only positions leave room *)

\* The paper-only positions that _paper_book may count: no filled entry in their symbol is newer.
\* OnlyPlaces are among them; unlike those, none is ever added but by an order.
Exposed == {i \in Known : /\ entry[i].only /\ ~entry[i].astray /\ entry[i].at \in Live
                          /\ entry[i].row \in {"submitted", "filled"}
                          /\ \A j \in newer[i] : entry[j].row \in {"submitted", "dead", "failed"}}
\* Those that count as paper-only, too.
Marked == {i \in Exposed : \A j \in newer[i] : entry[j].only \/ entry[j].row = "failed"}

ExposedSyms == SymbolsOf(Exposed)
MarkedSyms == SymbolsOf(Marked)

OpenLeft == /\ Cardinality(ExposedSyms) + Leave <= MaxOpen
            /\ Cardinality(ExposedSyms) + Leave <= Heat
\* All symbols, when there is room for one more paper-only position; or none.
BookRooms == {s \in Symbols : /\ Cardinality(ExposedSyms) + 1 + Leave <= MaxOpen
                              /\ Cardinality(ExposedSyms) + 1 + Leave <= Heat
                              /\ Cardinality(MarkedSyms) + 1 <= MaxOnly}

\* The positions that were read leave out none but today's unfilled entries.
Covered(held) ==
    /\ IsFiniteSet(held)
    /\ \A i \in Exposed : \/ entry[i].symbol \in held
                          \/ entry[i].row = "submitted" /\ entry[i].today

BookInv ==
    /\ WaitInv
    /\ Leave <= MaxOpen /\ Leave <= Heat => OpenLeft
    /\ Cardinality(MarkedSyms) <= MaxOnly
    /\ \A c \in Threads : /\ pass[c].pc = "rows" => Covered(pass[c].book.held)
                          /\ Promised(pass[c], BookRooms, entry, gate)

LEMMA SymbolsFinite ==
    ASSUME AutoProposeConstants, NEW S \in SUBSET Ids
    PROVE  IsFiniteSet(SymbolsOf(S)) /\ Cardinality(SymbolsOf(S)) \in Nat
<1> DEFINE f == [i \in S |-> entry[i].symbol]
<1>1. f \in Surjection(S, SymbolsOf(S))
  BY DEF Surjection, SymbolsOf
<1>2. IsFiniteSet(S)
  BY FS_Subset DEF AutoProposeConstants
<1> HIDE DEF f
<1> QED BY <1>1, <1>2, FS_Surjection, FS_CardinalityType

LEMMA SymsFinite ==
    ASSUME AutoProposeConstants
    PROVE  /\ IsFiniteSet(ExposedSyms) /\ Cardinality(ExposedSyms) \in Nat
           /\ IsFiniteSet(MarkedSyms) /\ Cardinality(MarkedSyms) \in Nat
<1>1. Exposed \in SUBSET Ids /\ Marked \in SUBSET Ids
  BY DEF Exposed, Marked, Known
<1> QED BY <1>1, SymbolsFinite DEF ExposedSyms, MarkedSyms

\* The least number of a set of numbers.
LEMMA LeastOf ==
    ASSUME NEW T, T \subseteq Nat, T # {}
    PROVE  \E n \in T : \A m \in T : n <= m
<1> DEFINE R == {ss \in Nat \X Nat : ss[1] < ss[2]}
<1>1. IsWellFoundedOn(R, Nat)
  BY NatLessThanWellFounded DEF OpToRel
<1>2. \A m, n \in Nat : m < n => <<m, n>> \in R
  OBVIOUS
<1> HIDE DEF R
<1>3. PICK n \in T : \A m \in T : ~(<<m, n>> \in R)
  BY <1>1, WFMin
<1>4. \A m \in T : ~(m < n)
  BY <1>2, <1>3
<1> QED BY <1>4

\* Of an unfilled entry and the later ones in its symbol, one unfilled is the newest.
LEMMA NewestUnfilled ==
    ASSUME TypesOK, AutoProposeConstants, NEW i \in Exposed, entry[i].row = "submitted"
    PROVE  \E j \in Ids : /\ j = i \/ j \in newer[i]
                          /\ entry[j].row = "submitted" /\ \A k \in newer[j] : entry[k].row \in {"dead", "failed"}
<1> DEFINE S == {j \in Ids : (j = i \/ j \in newer[i]) /\ entry[j].row = "submitted"}
           T == {Cardinality(newer[j]) : j \in S}
<1>1. i \in Ids /\ i \in S /\ \A k \in newer[i] : entry[k].row \in {"submitted", "dead", "failed"}
  BY DEF Exposed, Known
<1>2. \A j \in Ids : /\ IsFiniteSet(newer[j]) /\ Cardinality(newer[j]) \in Nat
                     /\ newer[j] \in SUBSET Ids
  BY FS_Subset, FS_CardinalityType DEF TypesOK, AgesOK, AutoProposeConstants
<1>3. T \subseteq Nat /\ T # {}
  BY <1>1, <1>2
<1>4. PICK n \in T : \A m \in T : n <= m
  BY <1>3, LeastOf
<1>5. PICK j \in S : Cardinality(newer[j]) = n
  OBVIOUS
<1>6. ASSUME NEW k \in newer[j], entry[k].row \notin {"dead", "failed"} PROVE FALSE
  <2>1. j \in Ids /\ k \in Ids /\ (j = i \/ j \in newer[i])
    BY <1>2
  <2>2. k \notin newer[k] /\ newer[k] \subseteq newer[j] /\ newer[j] \subseteq newer[i]
    BY <1>1, <2>1 DEF TypesOK, AgesOK
  <2>3. k \in S
    BY <1>1, <1>6, <2>1, <2>2
  <2>4. Cardinality(newer[j]) <= Cardinality(newer[k])
    BY <1>4, <1>5, <2>3
  <2>5. Cardinality(newer[k]) < Cardinality(newer[j])
    <3>1. newer[k] # newer[j]
      BY <1>6, <2>2
    <3> QED BY <1>2, <2>1, <2>2, <3>1, FS_Subset
  <2> QED BY <1>2, <2>1, <2>4, <2>5
<1> QED BY <1>5, <1>6

\* What is read then: no such position is left out, and none is taken for another.
LEMMA BookCovers ==
    ASSUME TypesOK, AutoProposeConstants, NEW held, Covered(held)
    PROVE  /\ ExposedSyms \subseteq held \cup Unfilled(held)
           /\ MarkedSyms \subseteq PaperOnlyOf(held \cup Unfilled(held))
<1>1. ASSUME NEW i \in Exposed PROVE entry[i].symbol \in held \cup Unfilled(held)
  <2>1. CASE entry[i].symbol \notin held
    <3>1. entry[i].row = "submitted" /\ entry[i].today /\ i \in Ids /\ entry[i].symbol # None
      BY <2>1 DEF Covered, Exposed, Known
    <3>2. PICK j \in Ids : /\ j = i \/ j \in newer[i]
                           /\ entry[j].row = "submitted" /\ \A k \in newer[j] : entry[k].row \in {"dead", "failed"}
      BY <3>1, NewestUnfilled
    <3>3. entry[j].symbol = entry[i].symbol /\ entry[j].today
      BY <3>1, <3>2 DEF TypesOK, AgesOK
    <3>4. j \in Latest
      BY <3>1, <3>2, <3>3 DEF Latest, Known
    <3> QED BY <2>1, <3>2, <3>3, <3>4 DEF Unfilled, SymbolsOf
  <2> QED BY <2>1
<1>2. ASSUME NEW i \in Marked, NEW k \in Latest, ~entry[k].only PROVE entry[k].symbol # entry[i].symbol
  <2>1. /\ i \in Ids /\ entry[i].only /\ entry[i].row \in {"submitted", "filled"}
        /\ \A j \in newer[i] : entry[j].only \/ entry[j].row = "failed"
    BY DEF Marked, Exposed, Known
  <2>2. /\ k \in Ids /\ entry[k].row \in {"submitted", "filled"}
        /\ \A j \in newer[k] : entry[j].row \in {"dead", "failed"}
    BY DEF Latest, Known
  <2>3. k # i /\ k \notin newer[i] /\ i \notin newer[k]
    BY <1>2, <2>1, <2>2
  <2> QED BY <2>1, <2>2, <2>3 DEF TypesOK, AgesOK
<1>3. ExposedSyms \subseteq held \cup Unfilled(held)
  BY <1>1 DEF ExposedSyms, SymbolsOf
<1>4. MarkedSyms \subseteq ExposedSyms
  BY DEF MarkedSyms, ExposedSyms, SymbolsOf, Marked
<1>5. \A i \in Marked : entry[i].symbol \notin SymbolsOf({k \in Latest : ~entry[k].only})
  BY <1>2 DEF SymbolsOf
<1>6. \A s \in MarkedSyms : s \notin SymbolsOf({k \in Latest : ~entry[k].only})
  BY <1>5 DEF MarkedSyms, SymbolsOf
<1> QED BY <1>3, <1>4, <1>6 DEF PaperOnlyOf

LEMMA BookRoom ==
    ASSUME TypesOK, AutoProposeConstants, NEW book, Covered(book.held), NEW s \in Symbols,
           BookHeadroom(book, s)
    PROVE  s \in BookRooms
<1> DEFINE H == book.held
           U == Unfilled(book.held)
<1>1. IsFiniteSet(H) /\ Cardinality(H) \in Nat
  BY FS_CardinalityType DEF Covered
<1>2. IsFiniteSet(U) /\ Cardinality(U) \in Nat
  <2>1. \A S \in SUBSET Known : IsFiniteSet(SymbolsOf(S)) /\ Cardinality(SymbolsOf(S)) \in Nat
    BY SymbolsFinite DEF Known
  <2> QED BY <2>1 DEF Unfilled, Latest
<1>3. ExposedSyms \subseteq H \cup U /\ MarkedSyms \subseteq PaperOnlyOf(H \cup U)
  BY BookCovers
<1>4. /\ Cardinality(PaperOnlyOf(H \cup U)) < MaxOnly
      /\ Cardinality(H) + Cardinality(U) + 1 + Leave <= MaxOpen
      /\ Cardinality(H) + Cardinality(U) + 1 + Leave <= Heat
  BY DEF BookHeadroom
<1> HIDE DEF H, U
<1>5. /\ IsFiniteSet(H \cup U) /\ Cardinality(H \cup U) \in Nat
      /\ Cardinality(H \cup U) <= Cardinality(H) + Cardinality(U)
  <2>1. /\ IsFiniteSet(H \cup U)
        /\ Cardinality(H \cup U) = Cardinality(H) + Cardinality(U) - Cardinality(H \cap U)
    BY <1>1, <1>2, FS_Union
  <2>2. Cardinality(H \cap U) \in Nat
    BY <1>1, FS_Subset, FS_CardinalityType
  <2>3. Cardinality(H \cup U) \in Nat
    BY <2>1, FS_CardinalityType
  <2> QED BY <1>1, <1>2, <2>1, <2>2, <2>3
<1>6. Cardinality(ExposedSyms) <= Cardinality(H) + Cardinality(U)
  <2>1. Cardinality(ExposedSyms) <= Cardinality(H \cup U)
    BY <1>3, <1>5, FS_Subset
  <2> QED BY <1>1, <1>2, <1>5, <2>1, SymsFinite
<1>7. Cardinality(MarkedSyms) <= Cardinality(PaperOnlyOf(H \cup U)) /\ Cardinality(PaperOnlyOf(H \cup U)) \in Nat
  <2>1. PaperOnlyOf(H \cup U) \subseteq H \cup U
    BY DEF PaperOnlyOf
  <2>2. IsFiniteSet(PaperOnlyOf(H \cup U))
    BY <1>5, <2>1, FS_Subset
  <2> QED BY <1>3, <2>2, FS_Subset, FS_CardinalityType
<1>8. Cardinality(MarkedSyms) + 1 <= MaxOnly
  BY <1>4, <1>7, SymsFinite DEF AutoProposeConstants
<1>9. /\ Cardinality(ExposedSyms) + 1 + Leave <= MaxOpen
      /\ Cardinality(ExposedSyms) + 1 + Leave <= Heat
  BY <1>1, <1>2, <1>4, <1>6, SymsFinite DEF AutoProposeConstants
<1> QED BY <1>8, <1>9 DEF BookRooms

\* Without a paper-only order none is added, and while a pass reads none is found filled or dead, and
\* midnight leaves none unfilled.
LEMMA BookFewer ==
    ASSUME TypesOK, TypesOK', AgesStep, NonePlaced
    PROVE  /\ \A i \in Exposed' : /\ i \in Exposed /\ entry'[i].symbol = entry[i].symbol
                                  /\ entry'[i].row = entry[i].row \/ Watched
                                  /\ entry[i].today /\ entry'[i].row = "submitted"
                                       => entry'[i].today \/ NoRows
           /\ \A i \in Marked' : i \in Marked
<1>1. ASSUME NEW i \in Exposed'
      PROVE  /\ i \in Exposed /\ entry'[i].symbol = entry[i].symbol
             /\ entry'[i].row = entry[i].row \/ Watched
             /\ entry[i].today /\ entry'[i].row = "submitted" => entry'[i].today \/ NoRows
             /\ newer[i] \subseteq newer'[i]
             /\ \A j \in newer[i] : /\ entry'[j].only = entry[j].only
                                    /\ entry'[j].row = "failed" => entry[j].row = "failed"
  <2>1. /\ i \in Ids /\ entry'[i].only /\ ~entry'[i].astray /\ entry'[i].at \in Live
        /\ entry'[i].symbol # None /\ entry'[i].row \in {"submitted", "filled"}
        /\ \A j \in newer'[i] : entry'[j].row \in {"submitted", "dead", "failed"}
    BY <1>1 DEF Exposed, Known
  <2>2. Shut(entry[i], entry'[i]) /\ Uncounted(entry[i], entry'[i])
    BY <2>1 DEF NonePlaced
  <2>3. /\ entry'[i].symbol = entry[i].symbol /\ entry[i].at \in Live
        /\ entry[i].only /\ ~entry[i].astray /\ entry[i].row \in {"submitted", "filled"}
        /\ entry'[i].row = entry[i].row \/ Watched
        /\ entry[i].today /\ entry'[i].row = "submitted" => entry'[i].today \/ NoRows
    BY <2>1, <2>2, NoEntryFacts DEF Shut, Uncounted
  <2>4. newer[i] \subseteq newer'[i]
    BY <2>1 DEF AgesStep
  <2>5. ASSUME NEW j \in newer[i]
        PROVE  /\ entry[j].row \in {"submitted", "dead", "failed"} /\ entry'[j].only = entry[j].only
               /\ entry'[j].row = "failed" => entry[j].row = "failed"
    <3>1. j \in Ids /\ entry[j].row # "none" /\ entry'[j].row \in {"submitted", "dead", "failed"}
      BY <2>1, <2>4 DEF TypesOK, AgesOK
    <3>2. Shut(entry[j], entry'[j]) /\ Uncounted(entry[j], entry'[j])
      BY <3>1 DEF NonePlaced
    <3> QED BY <3>1, <3>2, NoEntryFacts DEF Shut, Uncounted
  <2> QED BY <2>1, <2>3, <2>4, <2>5 DEF Exposed, Known
<1>2. ASSUME NEW i \in Marked' PROVE i \in Marked
  <2>1. i \in Exposed' /\ \A j \in newer'[i] : entry'[j].only \/ entry'[j].row = "failed"
    BY <1>2 DEF Marked
  <2> QED BY <1>1, <2>1 DEF Marked
<1> QED BY <1>1, <1>2

\* A paper-only order adds its own symbol.
LEMMA BookPlaced ==
    ASSUME TypesOK, AutoProposeConstants, NEW i \in Ids, OrderStep(i)
    PROVE  /\ ExposedSyms' \subseteq ExposedSyms \cup {entry[i].symbol}
           /\ MarkedSyms' \subseteq MarkedSyms \cup {entry[i].symbol}
<1>1. /\ AgesStep /\ \A j \in Ids \ {i} : entry'[j] = entry[j]
      /\ entry[i].row = "none" /\ entry'[i].symbol = entry[i].symbol
  BY OrderFacts DEF Shuts
<1>2. ASSUME NEW k \in Exposed', k # i
      PROVE  /\ k \in Exposed /\ entry'[k] = entry[k]
             /\ \A j \in newer[k] : j \in newer'[k] /\ entry'[j] = entry[j]
  <2>1. /\ k \in Ids /\ entry'[k] = entry[k] /\ entry[k].only /\ ~entry[k].astray
        /\ entry[k].at \in Live /\ entry[k].row \in {"submitted", "filled"} /\ entry[k].symbol # None
        /\ \A j \in newer'[k] : entry'[j].row \in {"submitted", "dead", "failed"}
    BY <1>1, <1>2 DEF Exposed, Known
  <2>2. \A j \in newer[k] : j \in newer'[k] /\ entry'[j] = entry[j]
    BY <1>1, <2>1 DEF AgesStep, TypesOK, AgesOK
  <2> QED BY <2>1, <2>2 DEF Exposed, Known
<1>3. \A k \in Marked' : k # i => k \in Marked
  BY <1>2 DEF Marked
<1>4. \A k \in Exposed' : entry'[k].symbol \in ExposedSyms \cup {entry[i].symbol}
  BY <1>1, <1>2 DEF ExposedSyms, SymbolsOf
<1>5. \A k \in Marked' : entry'[k].symbol \in MarkedSyms \cup {entry[i].symbol}
  <2>1. \A k \in Marked' : k \in Exposed'
    BY DEF Marked
  <2> QED BY <1>1, <1>2, <1>3, <2>1 DEF MarkedSyms, SymbolsOf
<1> QED BY <1>4, <1>5 DEF ExposedSyms, MarkedSyms, SymbolsOf

\* It takes the room its pass has found.
LEMMA BookTaken ==
    ASSUME TypesOK, AutoProposeConstants, NEW i \in Ids, OrderStep(i), entry[i].symbol \in BookRooms
    PROVE  OpenLeft' /\ Cardinality(MarkedSyms') <= MaxOnly
<1>1. /\ Cardinality(ExposedSyms) + 1 + Leave <= MaxOpen
      /\ Cardinality(ExposedSyms) + 1 + Leave <= Heat
      /\ Cardinality(MarkedSyms) + 1 <= MaxOnly
  BY DEF BookRooms
<1>2. Cardinality(ExposedSyms') <= Cardinality(ExposedSyms) + 1 /\ Cardinality(ExposedSyms') \in Nat
  <2>1. /\ IsFiniteSet(ExposedSyms \cup {entry[i].symbol})
        /\ Cardinality(ExposedSyms \cup {entry[i].symbol}) \in Nat
        /\ Cardinality(ExposedSyms \cup {entry[i].symbol}) <= Cardinality(ExposedSyms) + 1
    BY SymsFinite, OneMore
  <2>2. /\ Cardinality(ExposedSyms') <= Cardinality(ExposedSyms \cup {entry[i].symbol})
        /\ Cardinality(ExposedSyms') \in Nat
    BY <2>1, BookPlaced, FS_Subset, FS_CardinalityType
  <2> QED BY <2>1, <2>2, SymsFinite
<1>3. Cardinality(MarkedSyms') <= Cardinality(MarkedSyms) + 1 /\ Cardinality(MarkedSyms') \in Nat
  <2>1. /\ IsFiniteSet(MarkedSyms \cup {entry[i].symbol})
        /\ Cardinality(MarkedSyms \cup {entry[i].symbol}) \in Nat
        /\ Cardinality(MarkedSyms \cup {entry[i].symbol}) <= Cardinality(MarkedSyms) + 1
    BY SymsFinite, OneMore
  <2>2. /\ Cardinality(MarkedSyms') <= Cardinality(MarkedSyms \cup {entry[i].symbol})
        /\ Cardinality(MarkedSyms') \in Nat
    BY <2>1, BookPlaced, FS_Subset, FS_CardinalityType
  <2> QED BY <2>1, <2>2, SymsFinite
<1>4. /\ Cardinality(ExposedSyms') + Leave <= MaxOpen
      /\ Cardinality(ExposedSyms') + Leave <= Heat
  BY <1>1, <1>2, SymsFinite DEF AutoProposeConstants
<1>5. Cardinality(MarkedSyms') <= MaxOnly
  BY <1>1, <1>3, SymsFinite DEF AutoProposeConstants
<1> QED BY <1>4, <1>5 DEF OpenLeft

\* What had room has room.
LEMMA BookKept ==
    ASSUME AutoProposeConstants, ExposedSyms' \subseteq ExposedSyms, MarkedSyms' \subseteq MarkedSyms
    PROVE  /\ BookRooms \subseteq BookRooms' /\ (OpenLeft => OpenLeft')
           /\ Cardinality(MarkedSyms) <= MaxOnly => Cardinality(MarkedSyms') <= MaxOnly
<1>1. /\ Cardinality(ExposedSyms') <= Cardinality(ExposedSyms) /\ Cardinality(ExposedSyms') \in Nat
      /\ Cardinality(MarkedSyms') <= Cardinality(MarkedSyms) /\ Cardinality(MarkedSyms') \in Nat
  BY SymsFinite, FS_Subset, FS_CardinalityType
<1>2. BookRooms \subseteq BookRooms'
  BY <1>1, SymsFinite DEF BookRooms, AutoProposeConstants
<1>3. OpenLeft => OpenLeft'
  BY <1>1, SymsFinite DEF OpenLeft, AutoProposeConstants
<1>4. Cardinality(MarkedSyms) <= MaxOnly => Cardinality(MarkedSyms') <= MaxOnly
  BY <1>1, SymsFinite DEF AutoProposeConstants
<1> QED BY <1>2, <1>3, <1>4

LEMMA HeldFinite == AutoProposeConstants => IsFiniteSet(Held)
<1>1. \A S \in SUBSET Known : AutoProposeConstants => IsFiniteSet(SymbolsOf(S))
  BY SymbolsFinite DEF Known
<1> QED BY <1>1 DEF Held

\* The positions just read cover everything: an order that works is today's and its row says so.
LEMMA HeldCovers == TypesOK /\ AutoProposeConstants => Covered(Held)
<1> SUFFICES ASSUME TypesOK, AutoProposeConstants, NEW i \in Exposed
             PROVE  entry[i].symbol \in Held \/ (entry[i].row = "submitted" /\ entry[i].today)
  BY HeldFinite DEF Covered
<1>1. /\ i \in Known /\ i \in Ids /\ entry[i].at \in {"working", "held"}
      /\ entry[i].only /\ ~entry[i].astray /\ entry[i].row \in {"submitted", "filled"}
  BY DEF Exposed, Known, Live
<1>2. entry[i].at = "working" => entry[i].row = "submitted" /\ entry[i].today
  BY <1>1 DEF TypesOK, EntryOK
<1>3. entry[i].at = "held" => entry[i].symbol \in Held
  BY <1>1 DEF Held, SymbolsOf
<1> QED BY <1>1, <1>2, <1>3

LEMMA BookNext ==
    ASSUME BookInv, AutoProposeConstants, OneThread, "stream" \notin Events, [Next]_vars
    PROVE  BookInv'
<1>1. /\ WaitInv /\ WaitInv' /\ TypesOK /\ TypesOK' /\ AgesStep
      /\ \A c \in Threads : Promised(pass[c], BookRooms, entry, gate)
  BY WaitNext, EntryKinds DEF BookInv, WaitInv
<1>2. CASE \E i \in Ids : OnlyPlaced(i)
  <2>1. PICK i \in Ids : OnlyPlaced(i)
    BY <1>2
  <2>2. /\ entry[i].symbol \in BookRooms
        /\ \A c \in Threads : Promised(pass'[c], BookRooms', entry', gate') /\ pass'[c].pc # "rows"
    BY <1>1, <2>1, PromiseUsed
  <2>3. OpenLeft' /\ Cardinality(MarkedSyms') <= MaxOnly
    BY <1>1, <2>1, <2>2, BookTaken DEF OnlyPlaced
  <2> QED BY <1>1, <2>2, <2>3 DEF BookInv
<1>3. CASE ~\E i \in Ids : OnlyPlaced(i)
  <2>1. /\ \A i \in Exposed' : /\ i \in Exposed /\ entry'[i].symbol = entry[i].symbol
                               /\ entry'[i].row = entry[i].row \/ Watched
                               /\ entry[i].today /\ entry'[i].row = "submitted"
                                    => entry'[i].today \/ NoRows
        /\ \A i \in Marked' : i \in Marked
    BY <1>1, <1>3, EntryKinds, BookFewer
  <2>2. ExposedSyms' \subseteq ExposedSyms /\ MarkedSyms' \subseteq MarkedSyms
    <3>1. \A i \in Marked' : i \in Exposed'
      BY DEF Marked
    <3> QED BY <2>1, <3>1 DEF ExposedSyms, MarkedSyms, SymbolsOf
  <2>3. /\ BookRooms \subseteq BookRooms'
        /\ Leave <= MaxOpen /\ Leave <= Heat => OpenLeft'
        /\ Cardinality(MarkedSyms') <= MaxOnly
    BY <2>2, BookKept DEF BookInv
  <2>4. ASSUME NEW c \in Threads, pass'[c].pc = "rows"
        PROVE  /\ IsFiniteSet(pass'[c].book.held)
               /\ \A i \in Exposed' : \/ entry'[i].symbol \in pass'[c].book.held
                                      \/ entry'[i].row = "submitted" /\ entry'[i].today
    <3>1. CASE pass'[c] = pass[c]
      <4>1. Covered(pass[c].book.held)
        BY <2>4, <3>1 DEF BookInv
      <4>2. ~Watched /\ ~NoRows
        BY <2>4, <3>1 DEF Watched, NoRows, At
      <4> QED BY <2>1, <3>1, <4>1, <4>2 DEF Covered
    <3>2. CASE entry' = entry /\ newer' = newer /\ pass'[c].book.held = Held
      <4>1. Covered(Held)
        BY <1>1, HeldCovers
      <4> QED BY <2>1, <3>2, <4>1 DEF Covered
    <3> QED BY <1>1, <2>4, <3>1, <3>2, ReadSteps
  <2>5. ASSUME NEW c \in Threads
        PROVE  pass'[c].fits \in {None, pass[c].fits} \/ pass'[c].fits \subseteq BookRooms'
    <3>1. pass[c].pc = "rows" => Covered(pass[c].book.held)
      BY DEF BookInv
    <3>2. pass[c].pc = "rows" => \A s \in Symbols : BookHeadroom(pass[c].book, s) => s \in BookRooms
      BY <1>1, <3>1, BookRoom
    <3> QED BY <1>1, <2>3, <3>2, ReadSteps
  <2>6. \A c \in Threads : Promised(pass'[c], BookRooms', entry', gate')
    BY <1>1, <2>3, <2>5, PromiseKept
  <2>7. \A c \in Threads : pass'[c].pc = "rows" => Covered(pass[c].book.held)'
    BY <2>4 DEF Covered
  <2> QED BY <1>1, <2>3, <2>6, <2>7 DEF BookInv
<1> QED BY <1>2, <1>3

LEMMA BookInit == Init /\ AutoProposeConstants => BookInv
<1> SUFFICES ASSUME Init, AutoProposeConstants PROVE BookInv
  OBVIOUS
<1>1. ExposedSyms = {} /\ MarkedSyms = {}
  <2>1. Exposed = {} /\ Marked = {}
    BY NoEntryFacts DEF Init, Exposed, Marked, Known
  <2> QED BY <2>1 DEF ExposedSyms, MarkedSyms, SymbolsOf
<1>2. Cardinality(MarkedSyms) <= MaxOnly /\ (Leave <= MaxOpen /\ Leave <= Heat => OpenLeft)
  BY <1>1, FS_EmptySet DEF OpenLeft, AutoProposeConstants
<1>3. \A c \in Threads : pass[c].pc # "rows" /\ Promised(pass[c], BookRooms, entry, gate)
  BY NoPassFacts DEF Init, Promised, InHand
<1> QED BY <1>2, <1>3, WaitInit DEF BookInv

LEMMA BookAlways ==
    ASSUME OneThread, "stream" \notin Events
    PROVE  Spec => []BookInv
<1>1. AutoProposeConstants
  BY AutoProposeConstants
<1>2. Init => BookInv
  BY <1>1, BookInit
<1>3. BookInv /\ [Next]_vars => BookInv'
  BY <1>1, BookNext
<1> QED BY <1>2, <1>3, PTL DEF Spec

LEMMA PlacesExposed ==
    ASSUME AutoProposeConstants
    PROVE  /\ Cardinality(SymbolsOf(OnlyPlaces)) <= Cardinality(ExposedSyms)
           /\ Cardinality(SymbolsOf(OnlyMarked)) <= Cardinality(MarkedSyms)
           /\ Cardinality(SymbolsOf(OnlyPlaces)) \in Nat
           /\ Cardinality(SymbolsOf(OnlyMarked)) \in Nat
<1> DEFINE P == OnlyPlaces
           M == OnlyMarked
<1>1. P \in SUBSET Ids /\ M \in SUBSET Ids /\ P \subseteq Exposed /\ M \subseteq Marked
  BY DEF OnlyPlaces, OnlyMarked, Latest, Exposed, Marked, Known
<1> HIDE DEF P, M
<1>2. SymbolsOf(P) \subseteq ExposedSyms /\ SymbolsOf(M) \subseteq MarkedSyms
  BY <1>1 DEF SymbolsOf, ExposedSyms, MarkedSyms
<1>3. /\ Cardinality(SymbolsOf(P)) <= Cardinality(ExposedSyms)
      /\ Cardinality(SymbolsOf(M)) <= Cardinality(MarkedSyms)
      /\ Cardinality(SymbolsOf(P)) \in Nat /\ Cardinality(SymbolsOf(M)) \in Nat
  BY <1>1, <1>2, SymsFinite, SymbolsFinite, FS_Subset
<1> QED BY <1>3 DEF P, M

\* While no other pass runs beside it and no trade stream writes rows meanwhile, the paper-only
\* positions that have not gone astray, open or unfilled, leave the last LEAVE_FOR_ETORO places of
\* paper's open room and heat (_book_headroom), if the settings leave that many at all.
THEOREM PaperOnlyLeavesPlaces ==
    ASSUME OneThread, "stream" \notin Events, Leave <= MaxOpen, Leave <= Heat
    PROVE  Spec => []OnlyLeavesPlaces
<1>1. AutoProposeConstants
  BY AutoProposeConstants
<1>2. BookInv => OnlyLeavesPlaces
  <2> SUFFICES ASSUME BookInv PROVE OnlyLeavesPlaces
    OBVIOUS
  <2>1. OpenLeft
    BY DEF BookInv
  <2> QED BY <1>1, <2>1, PlacesExposed, SymsFinite DEF OpenLeft, OnlyLeavesPlaces, AutoProposeConstants
<1> QED BY <1>2, BookAlways, PTL

\* Under the same two conditions there are at most MAX_OPEN_PAPER_ONLY of them in symbols where
\* nothing else was ordered since but what failed (_paper_book's paper_only, _book_headroom).
THEOREM PaperOnlyWithinMax ==
    ASSUME OneThread, "stream" \notin Events
    PROVE  Spec => []OnlyWithinMax
<1>1. AutoProposeConstants
  BY AutoProposeConstants
<1>2. BookInv => OnlyWithinMax
  <2> SUFFICES ASSUME BookInv PROVE OnlyWithinMax
    OBVIOUS
  <2>1. Cardinality(MarkedSyms) <= MaxOnly
    BY DEF BookInv
  <2> QED BY <1>1, <2>1, PlacesExposed, SymsFinite DEF OnlyWithinMax, AutoProposeConstants
<1> QED BY <1>2, BookAlways, PTL
=============================================================================
