------------------------------ MODULE SlotInv -------------------------------
(***************************************************************************)
(* The inductive invariant of module Slot: who holds a lease, who owns a   *)
(* generation, and what each program point knows.  TLC checks it on the    *)
(* instances of MCSlot; module SlotProofs proves it.                       *)
(***************************************************************************)
EXTENDS Slot

\* Program points at which no lease is held, those of an upload that has not
\* reached its terminal, and those at which a reclaim may be owed.
Unleased == {"idle", "pressure", "again", "peek", "reap"}
Uploading == {"writing", "stamped", "flip", "discard"}
Owing == {"finish", "fail", "remove", "uncharge", "streaming"}

\* A goroutine holds a lease exactly between its acquire and its release, and a
\* sweep has a handle to peek at.
Leased ==
  \A p \in Procs : /\ hnd[p] = None <=> pc[p] \in Unleased
                   /\ pc[p] = "peek" => walk[p] # None

\* What the pointers point at.
Born ==
  /\ \A g \in Gens : state[g] = "unborn" <=> g > minted
  /\ \A h \in Handles :
       /\ live[h] # 0 => state[live[h]] = "live"
       /\ current[h] # 0 => state[current[h]] \in {"finalized", "consumed"}

\* A live generation is one upload's, and no two uploads overlap.
Uploads ==
  /\ \A p \in Procs : pc[p] \in Uploading => mine[p] # 0 /\ live[hnd[p]] = mine[p]
  /\ \A h \in Handles : live[h] # 0 =>
       \E p \in Procs : pc[p] \in Uploading /\ hnd[p] = h
  /\ \A p, q \in Procs : pc[p] \in Uploading /\ pc[q] \in Uploading => p = q

\* A debt belongs to one goroutine at the point that pays it, for a generation
\* nobody can reach any more.
Debt(p) ==
  /\ pc[p] \in {"fail", "remove", "uncharge"} => owed[p] # 0
  /\ owed[p] # 0 => pc[p] \in Owing
  /\ \A g \in Gens : owed[p] = g =>
       /\ state[g] # "unborn"
       /\ ~reachable(g)
       /\ \A q \in Procs : owed[q] = g => q = p
Debts == \A p \in Procs : Debt(p)

\* A reader's debt is the consume-once generation it claimed.
Claim(p) ==
  /\ pc[p] = "streaming" /\ owed[p] # 0 => mine[p] = owed[p]
  /\ p \in Readers /\ pc[p] \in {"remove", "uncharge"} => mine[p] = owed[p]
  /\ p \in Readers /\ owed[p] # 0 => state[owed[p]] = "consumed"
  /\ pc[p] = "clear" => mine[p] # 0 /\ state[mine[p]] = "consumed"
  /\ pc[p] = "streaming" => p \in Readers
  /\ p \in Readers => pc[p] \notin {"finish", "fail"}
Claims == \A p \in Procs : Claim(p)

\* Who owns what: the heart of the invariant.
Ownership ==
  /\ Shape
  /\ Leased
  /\ OneHandle
  /\ Born
  /\ Uploads
  /\ Debts
  /\ Claims

\* A consume-once generation not yet claimed was not delivered.
Undelivered ==
  \A g \in Gens : (consume[g] \/ state[g] = "unborn") /\ state[g] # "consumed"
                  => delivered[g] = 0

\* What can be reached has its home.
Homed == \A g \in Gens : reachable(g) => home[g] = "present"

\* A log is open until its writer's terminal, and the terminal agrees with the
\* flip: at "finish" the generation was published, at "fail" it never was.
LogsOfGens ==
  \A g \in Gens : /\ state[g] = "unborn" => log[g] = "open"
                  /\ log[g] = "closed" => state[g] \in {"finalized", "consumed"}
                  /\ log[g] = "aborted" => state[g] = "live"
LogsOfLive == \A h \in Handles : live[h] # 0 => log[live[h]] = "open"
LogsOfEnds ==
  \A p \in Procs :
    /\ pc[p] = "finish" => mine[p] # 0 /\ state[mine[p]] \in {"finalized", "consumed"}
    /\ pc[p] = "fail" => mine[p] # 0 /\ mine[p] = owed[p] /\ state[mine[p]] = "live"
Logs == LogsOfGens /\ LogsOfLive /\ LogsOfEnds

\* The inductive invariant.
IInv ==
  /\ Ownership
  /\ FootprintExact
  /\ Undelivered
  /\ AtMostOnce
  /\ Homed
  /\ Logs

-----------------------------------------------------------------------------
(* What comes in which order, on top of IInv *)

\* A home that nobody tried to remove is one that can be reached or whose
\* removal is owed.
Kept ==
  /\ \A g \in Gens : home[g] = "present" => g \in held
  /\ \A p \in Procs : pc[p] = "uncharge" => home[owed[p]] # "present"

\* The instant an operation noted is not in the future.
Noted == \A p \in Procs : at[p] <= now

\* Along one handle generations come in mint order, and their ids too: the
\* handle's counter is at or above every id it gave.
InOrder ==
  \A h \in Handles :
    /\ current[h] # 0 => prefix[current[h]] <= seed[h]
    /\ live[h] # 0 => prefix[live[h]] <= seed[h] /\ live[h] > current[h]
    /\ live[h] # 0 /\ current[h] # 0 => prefix[live[h]] > prefix[current[h]]

\* A reader has a mode only while it resolves or waits, waits only with a mode
\* that waits, and has a baseline only after following.
Wait(r) ==
  /\ mode[r] # None => pc[r] \in {"resolve", "parked"}
  /\ pc[r] = "parked" => mode[r] \in {"wait", "follow"}
  /\ r \in armed => pc[r] = "parked"
  /\ base[r] # 0 => pc[r] \in {"resolve", "parked", "streaming", "remove",
                               "uncharge", "clear"}
  /\ base[r] # 0 /\ pc[r] \in {"resolve", "parked"} => mode[r] = "follow"
  /\ base[r] <= minted
Waits == \A r \in Readers : Wait(r)

\* While a follower waits its handle only moves on from the baseline: what is
\* current is the baseline itself or newer by mint and by id, and so is what is
\* being written.
Beyond(h, b) ==
  /\ prefix[b] <= seed[h]
  /\ live[h] # 0 => live[h] > b /\ prefix[live[h]] > prefix[b]
  /\ current[h] \notin {0, b} => current[h] > b /\ prefix[current[h]] > prefix[b]
Follows ==
  \A r \in Readers :
    pc[r] \in {"resolve", "parked"} /\ base[r] # 0 => Beyond(hnd[r], base[r])

\* The second inductive invariant: with IInv, a step keeps all of it.
OrderInv ==
  /\ Kept
  /\ NoLostUpdate
  /\ Noted
  /\ InOrder
  /\ Waits
  /\ Follows
  /\ FollowsNewer
  /\ NoLostWakeup
=============================================================================
