----------------------------- MODULE ReviewDesk -----------------------------
(***************************************************************************)
(* The review workflow: a request ranks the markets of the day, previews   *)
(* the best of them and persists a proposal for each that has no active    *)
(* one; a reviewer sets a proposal's status; materializing a market makes  *)
(* a decision of its preview, whatever the proposals say.                  *)
(*                                                                         *)
(* A session sees the rows that others have committed and not the ones it  *)
(* has added itself (autoflush is off), and commits them together.         *)
(***************************************************************************)
EXTENDS MarketData, Sequences, SequencesExt, FiniteSets

CONSTANTS
  Days,              \* what the provider may list: sequences of [market, quote]
  Client,            \* the concurrent requests
  Limit,             \* 10
  MaxProposals, MaxDecisions,   \* bounds
  Nowhere            \* a market without a row

ASSUME ReviewAssumption ==
  /\ Limit \in Nat /\ MaxProposals \in Nat /\ MaxDecisions \in Nat
  /\ IsFiniteSet(Client)
  /\ \A d \in DOMAIN Days : Len(Days[d]) \in Nat /\ DOMAIN Days[d] = 1 .. Len(Days[d])

Statuses == {"new", "reviewed", "approved", "rejected"}
ActiveStatuses == {"new", "reviewed", "approved"}

VARIABLES
  proposals,         \* the committed rows of proposal_records: market and status
  request,           \* of each client: its step, what is left of its batch, what it has added
  book,              \* the row of each market: the quote it was written from
  exhibits,          \* the evidence rows of each market
  decided,           \* for each market, the decisions that were made of it
  excused            \* history: markets of which two requests met, a batch had two, or a
                     \* finished proposal was taken up again, until one at most is active

review == <<proposals, request, book, exhibits, decided, excused>>

Idle == [step |-> "idle", left |-> <<>>, added |-> <<>>]

ReviewInit ==
  /\ proposals = <<>> /\ request = [c \in Client |-> Idle]
  /\ book = [m \in Market |-> Nowhere]
  /\ exhibits = [m \in Market |-> {}] /\ decided = [m \in Market |-> 0]
  /\ excused = {}

-----------------------------------------------------------------------------
(***************************************************************************)
(* Ranking and evidence; days are in tenths.  The wording of a title is a  *)
(* set of "novelty", "binary" and "event".                                 *)
(***************************************************************************)

Horizon(days) ==
  CASE 5 <= days /\ days <= 450 -> 15
    [] days < 5 -> 0 - 10
    [] days > 1200 -> 0 - 5
    [] OTHER -> 0

RankScore(q) ==
  (IF q.liquidity >= 10000 THEN 30 ELSE IF q.liquidity >= 3000 THEN 18 ELSE 0 - 20)
  + (IF q.volume >= 5000 THEN 20 ELSE IF q.volume >= 1000 THEN 10 ELSE 0 - 8)
  + (IF 0 < q.spread /\ q.spread <= 150 THEN 20 ELSE IF q.spread <= 400 THEN 10 ELSE 0 - 15)
  + (IF q.days = {} THEN 0 ELSE Horizon(CHOOSE d \in q.days : TRUE))
  + (IF "novelty" \in q.wording THEN 0 - 12 ELSE 0) + (IF "binary" \in q.wording THEN 6 ELSE 0)

\* The heuristics whose condition holds, by their direction; if none does, a neutral one.
Exhibits(q) ==
  LET found ==
        {[about |-> "liquidity", says |-> s] :
           s \in {t \in Side : IF t = "yes" THEN q.liquidity >= 10000 ELSE q.liquidity < 3000}}
        \cup {[about |-> "spread", says |-> s] :
           s \in {t \in Side : IF t = "yes" THEN 0 < q.spread /\ q.spread <= 150 ELSE q.spread > 400}}
        \cup {[about |-> "wording", says |-> s] :
           s \in {t \in Side : (IF t = "yes" THEN "event" ELSE "novelty") \in q.wording}}
        \cup {[about |-> "volume", says |-> s] :
           s \in {t \in Side : IF t = "yes" THEN q.volume >= 5000 ELSE q.volume < 1000}}
  IN  IF found = {} THEN {[about |-> "none", says |-> "neutral"]} ELSE found

\* The best of the list first, and of equals the first.
Ranked(list) ==
  LET ahead(i) ==
        {j \in DOMAIN list :
           \/ RankScore(list[j].quote) > RankScore(list[i].quote)
           \/ RankScore(list[j].quote) = RankScore(list[i].quote) /\ j < i}
  IN  [k \in DOMAIN list |-> list[CHOOSE i \in DOMAIN list : Cardinality(ahead(i)) = k - 1]]

-----------------------------------------------------------------------------
(***************************************************************************)
(* Persisting.                                                             *)
(***************************************************************************)

ActiveIn(rows, m) == {i \in DOMAIN rows : rows[i].market = m /\ rows[i].status \in ActiveStatuses}

\* The proposals of a market that are on their way to the table.
Underway(m, requests) ==
  {u \in Client \X (1 .. Limit) :
     LET added == requests[u[1]].added IN u[2] \in DOMAIN added /\ added[u[2]] = m}

\* A market is excused from the moment a second proposal of it is on its way, and as long
\* as one is or two are active.
Excuse ==
  excused' = {m \in Market :
    \/ Cardinality(Underway(m, request')) >= 2
    \/ /\ m \in excused
       /\ Underway(m, request') # {} \/ Cardinality(ActiveIn(proposals', m)) >= 2}

Turn(c, r) == request' = [request EXCEPT ![c] = r]

PersistBegins(c) ==
  /\ request[c] = Idle
  /\ \E d \in DOMAIN Days :
       LET best == Ranked(Days[d])
           batch == SubSeq(best, 1, Lesser(Limit, Len(best)))
       IN  Turn(c, [step |-> "persist", left |-> [k \in DOMAIN batch |-> batch[k].market],
                    added |-> <<>>])
  /\ UNCHANGED <<proposals, book, exhibits, decided, excused>>

\* Variant: a proposal that was approved is not looked for.
PersistForgetsApproved(c) ==
  /\ request[c].step = "persist" /\ request[c].left # <<>>
  /\ LET m == Head(request[c].left)
         there == {i \in ActiveIn(proposals, m) : proposals[i].status # "approved"}
     IN  Turn(c, [request[c] EXCEPT !.left = Tail(@),
                    !.added = IF there = {} THEN Append(@, m) ELSE @])
  /\ UNCHANGED <<proposals, book, exhibits, decided>>
  /\ Excuse

PersistNext(c) ==
  /\ request[c].step = "persist" /\ request[c].left # <<>>
  /\ LET m == Head(request[c].left)
     IN  Turn(c, [request[c] EXCEPT !.left = Tail(@),
                    !.added = IF ActiveIn(proposals, m) = {} THEN Append(@, m) ELSE @])
  /\ UNCHANGED <<proposals, book, exhibits, decided>>
  /\ Excuse

\* Even a market in which nothing should be done gets its proposal.
PersistCommits(c) ==
  /\ request[c].step = "persist" /\ request[c].left = <<>>
  /\ Len(proposals) + Len(request[c].added) <= MaxProposals
  /\ proposals' = proposals \o [k \in DOMAIN request[c].added |->
                    [market |-> request[c].added[k], status |-> "new"]]
  /\ Turn(c, Idle)
  /\ UNCHANGED <<book, exhibits, decided>>
  /\ Excuse

\* The request fails, or the process dies: nothing of it is left.
RequestFails(c) ==
  /\ request[c] # Idle /\ Turn(c, Idle)
  /\ UNCHANGED <<proposals, book, exhibits, decided>>
  /\ Excuse

-----------------------------------------------------------------------------
(***************************************************************************)
(* Reviewing and materializing.                                            *)
(***************************************************************************)

\* Any status follows any other.
SetStatus(id, status) ==
  /\ id \in DOMAIN proposals
  /\ proposals' = [proposals EXCEPT ![id].status = status]
  /\ UNCHANGED <<request, book, exhibits, decided>>
  /\ LET m == proposals[id].market IN
     IF /\ proposals[id].status \notin ActiveStatuses /\ status \in ActiveStatuses
        /\ ActiveIn(proposals, m) # {} \/ Underway(m, request) # {}
     THEN excused' = excused \cup {m} ELSE Excuse

\* A scan writes the row and the evidence of every market of the list, duplicates in
\* their ranked order.
ScanCommits(list) ==
  LET last == [m \in {list[i].market : i \in DOMAIN list} |->
                 Last(SelectSeq(Ranked(list), LAMBDA x : x.market = m)).quote]
  IN  /\ book' = [m \in Market |-> IF m \in DOMAIN last THEN last[m] ELSE book[m]]
      /\ exhibits' = [m \in Market |-> IF m \in DOMAIN last THEN Exhibits(last[m]) ELSE exhibits[m]]
      /\ UNCHANGED <<proposals, request, decided, excused>>

\* A preview that should be traded; a market without one is not found.
MaterializeBegins(c) ==
  /\ request[c] = Idle
  /\ \E d \in DOMAIN Days : \E i \in DOMAIN Days[d] :
       Turn(c, [step |-> "materialize", left |-> <<Days[d][i]>>, added |-> <<>>])
  /\ UNCHANGED <<proposals, book, exhibits, decided, excused>>

\* The row of a market that has one keeps its prices, whatever the preview saw; the
\* evidence is replaced; a decision is made, though there may be one already.
Materialize(c) ==
  /\ request[c].step = "materialize"
  /\ LET m == request[c].left[1].market
         q == request[c].left[1].quote
     IN  /\ decided[m] < MaxDecisions
         /\ book' = [book EXCEPT ![m] = IF @ = Nowhere THEN q ELSE @]
         /\ exhibits' = [exhibits EXCEPT ![m] = Exhibits(q)]
         /\ decided' = [decided EXCEPT ![m] = @ + 1]
  /\ Turn(c, Idle)
  /\ UNCHANGED <<proposals, excused>>

ReviewNext ==
  \/ \E c \in Client :
       \/ PersistBegins(c) \/ PersistNext(c) \/ PersistCommits(c) \/ RequestFails(c)
       \/ MaterializeBegins(c) \/ Materialize(c)
  \/ \E d \in DOMAIN Days : ScanCommits(Days[d])
  \/ \E id \in 1 .. MaxProposals, status \in Statuses : SetStatus(id, status)

ReviewSpec == ReviewInit /\ [][ReviewNext]_review

-----------------------------------------------------------------------------
\* Nothing in the table keeps a market from having two active proposals, and yet it has
\* one at most unless two requests met over it, a request listed it twice, or a reviewer
\* took up a finished one again; and when that is cleared up, it has one again.
OneActiveProposal ==
  \A m \in Market \ excused : Cardinality(ActiveIn(proposals, m)) <= 1
=============================================================================
