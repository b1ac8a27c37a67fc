--------------------- MODULE ResolutionSettlementProofs ---------------------
(***************************************************************************)
(* Proofs about ResolutionSettlement: what a settled key, a result and a   *)
(* position row owe to each other, for any number of strategies and        *)
(* positions, episodes, restarts and refused writes.                       *)
(***************************************************************************)
EXTENDS ResolutionSettlement, Integers, TLAPS

USE SettlementAssumption

-----------------------------------------------------------------------------
(* The inductive invariant.                                                *)

FillPending(p) == \E i \in DOMAIN callbacks : callbacks[i] = <<"fill", p>>

Exempt(r) == r.by = "poll" /\ r.overlapped

(* How the results and the row of a traded position relate to the episode  *)
(* its position in the Cache is in.                                        *)
EpisodesAgree ==
    \A p \in Traded :
        /\ cache[p].held > 0 => cache[p].episode > 0
        /\ HasResult(p, "resolution") =>
              /\ resolved[p]
              /\ results[p]["resolution"].episode = cache[p].episode
        /\ HasResult(p, "exit") =>
              /\ results[p]["exit"].episode <= cache[p].episode
              /\ results[p]["exit"].episode = cache[p].episode => cache[p].held = 0

RowsFollow ==
    \A p \in Traded :
        /\ row[p].episode <= cache[p].episode
        /\ row[p].status = "absent" => row[p].episode = 0
        /\ row[p].status # "absent" => row[p].at >= 2 * row[p].episode - 1
        /\ row[p].rich = FALSE

(* The rows of the legacy tables have no episode, and no exit.             *)
MigratedIsPlain ==
    \A p \in Migrated :
        /\ row[p].episode = 0
        /\ results[p]["exit"] = None
        /\ results[p]["resolution"].episode = 0

(* Once a position is resolved, unless a poll did it while its exit order  *)
(* worked, no exit fill of it is due any more.                             *)
ExitIsOver ==
    \A p \in Traded :
        HasResult(p, "resolution") /\ ~Exempt(results[p]["resolution"]) =>
            /\ exitOrder[p] = 0
            /\ ~FillPending(p)
            /\ cache[p].held > 0 \/ cache[p].byExit = FALSE

ShownIsClosed ==
    \A p \in Positions, k \in Kinds :
        HasResult(p, k) /\ results[p][k].unshown = FALSE =>
            /\ results[p][k].episode <= row[p].episode
            /\ results[p][k].episode = row[p].episode => row[p].status # "OPEN"

IInv == /\ TypeOK /\ SettledIsDurable /\ EpisodesAgree /\ RowsFollow
        /\ MigratedIsPlain /\ ExitIsOver /\ CountedOnce /\ ShownIsClosed

-----------------------------------------------------------------------------
(* The initial state.                                                      *)
LEMMA InitIInv == Init => IInv
<1> SUFFICES ASSUME Init PROVE IInv OBVIOUS
<1>1. \A p \in Positions, k \in Kinds : results[p][k] = None BY DEF Init
<1>2. \A p \in Positions, k \in Kinds : ~HasResult(p, k) BY <1>1 DEF HasResult
<1>3. Traded \subseteq Positions /\ Migrated \subseteq Positions BY DEF Positions
<1>4. "exit" \in Kinds /\ "resolution" \in Kinds BY DEF Kinds
<1>5. TypeOK
  <2>1. None \in Result BY DEF None, Result
  <2>2. results \in [Positions -> [Kinds -> Result]] BY <2>1 DEF Init
  <2>3. row \in [Positions -> [status : {"absent", "OPEN", "CLOSED"}, at : Nat,
                               episode : 0 .. MaxEpisodes, quantity : Nat,
                               rich : BOOLEAN]]
    BY DEF Init, NoRow, MigratedRow
  <2> QED BY <1>3, <2>2, <2>3 DEF Init, TypeOK
<1>6. SettledIsDurable BY DEF Init, SettledIsDurable
<1>7. EpisodesAgree BY <1>2, <1>3, <1>4 DEF Init, EpisodesAgree
<1>8. RowsFollow BY <1>3 DEF Init, RowsFollow, NoRow
<1>9. MigratedIsPlain BY <1>1, <1>3, <1>4 DEF Init, MigratedIsPlain, MigratedRow, None
<1>10. ExitIsOver BY <1>2, <1>3, <1>4 DEF ExitIsOver
<1>11. CountedOnce BY <1>2, <1>4 DEF CountedOnce
<1>12. ShownIsClosed BY <1>2 DEF ShownIsClosed
<1> QED BY <1>5, <1>6, <1>7, <1>8, <1>9, <1>10, <1>11, <1>12 DEF IInv

-----------------------------------------------------------------------------
(* The engine and the orders.                                              *)

(* Steps that leave the store and the keys alone.                          *)
LEMMA StoreUntouched ==
    ASSUME IInv, UNCHANGED <<settled, results, row>>
    PROVE  SettledIsDurable' /\ MigratedIsPlain' /\ CountedOnce' /\ ShownIsClosed'
BY DEF IInv, SettledIsDurable, MigratedIsPlain, CountedOnce, ShownIsClosed, HasResult

(* What the types say of a position in the Cache.                          *)
LEMMA CacheTypes ==
    ASSUME TypeOK, NEW p \in Traded
    PROVE  /\ cache[p].held \in 0 .. MaxHeld /\ cache[p].episode \in 0 .. MaxEpisodes
           /\ cache[p].sold \in Nat /\ cache[p].byExit \in BOOLEAN
           /\ exitOrder[p] \in 0 .. MaxHeld
BY DEF TypeOK

LEMMA ResultTypes ==
    ASSUME TypeOK, NEW p \in Positions, NEW k \in Kinds
    PROVE  /\ results[p][k] \in Result
           /\ results[p][k].episode \in Nat /\ results[p][k].quantity \in Nat
           /\ results[p][k].overlapped \in BOOLEAN /\ results[p][k].unshown \in BOOLEAN
BY DEF TypeOK, Result

LEMMA PositionSets ==
    /\ Traded \subseteq Positions /\ Migrated \subseteq Positions
    /\ "exit" \in Kinds /\ "resolution" \in Kinds
    /\ \A p \in Positions : p \in Traded \/ p \in Migrated
    /\ \A p \in Traded : p \notin Migrated
BY DEF Positions, Kinds

(* A position that is not resolved has no result of a resolution.          *)
LEMMA UnresolvedHasNone ==
    ASSUME IInv, NEW p \in Traded, ~resolved[p]
    PROVE  ~HasResult(p, "resolution")
BY DEF IInv, EpisodesAgree

LEMMA QuietHasNoFill == Quiet => \A p : ~FillPending(p)
BY DEF Quiet, FillPending

LEMMA EntryFillKeeps ==
    ASSUME IInv, NEW q \in Traded, EntryFill(q) PROVE IInv'
<1> USE PositionSets
<1>1. UNCHANGED <<mode, replays, exitOrder, closeOrder, settled, registered, resolved,
                  results, row, logged, restarts, faults>>
  BY DEF EntryFill, store
<1>2. PICK n \in 1 .. MaxHeld - cache[q].held :
          /\ cache' = [cache EXCEPT
                ![q] = [held |-> @.held + n,
                        episode |-> IF cache[q].held = 0 THEN @.episode + 1 ELSE @.episode,
                        sold |-> @.sold, byExit |-> FALSE]]
          /\ cache'[q].episode <= MaxEpisodes
  BY DEF EntryFill
<1>3. TypeOK BY DEF IInv
<1> DEFINE held == cache[q].held + n
           episode == IF cache[q].held = 0 THEN cache[q].episode + 1 ELSE cache[q].episode
<1>4. cache'[q] = [held |-> held, episode |-> episode, sold |-> cache[q].sold, byExit |-> FALSE]
  BY <1>2, <1>3 DEF TypeOK
<1>5. \A p \in Traded : p # q => cache'[p] = cache[p] BY <1>2, <1>3 DEF TypeOK
<1>6. held \in 1 .. MaxHeld /\ episode \in 1 .. MaxEpisodes
  <2>1. cache[q].held > 0 => cache[q].episode > 0 BY DEF IInv, EpisodesAgree
  <2> QED BY <1>2, <1>3, <1>4, <2>1, CacheTypes
<1>7. TypeOK'
  <2>1. cache'[q] \in [held : 0 .. MaxHeld, episode : 0 .. MaxEpisodes, sold : Nat,
                       byExit : BOOLEAN]
    BY <1>3, <1>4, <1>6, CacheTypes
  <2>2. cache' \in [Traded -> [held : 0 .. MaxHeld, episode : 0 .. MaxEpisodes, sold : Nat,
                               byExit : BOOLEAN]]
    BY <1>2, <1>3, <1>5, <2>1 DEF TypeOK
  <2>3. callbacks' \in Seq({"fill", "position"} \X Traded) BY DEF EntryFill
  <2> QED BY <1>1, <1>3, <2>2, <2>3 DEF TypeOK
<1>8. EpisodesAgree'
  <2> SUFFICES ASSUME NEW p \in Traded
               PROVE  /\ cache'[p].held > 0 => cache'[p].episode > 0
                      /\ HasResult(p, "resolution") =>
                            /\ resolved[p]
                            /\ results[p]["resolution"].episode = cache'[p].episode
                      /\ HasResult(p, "exit") =>
                            /\ results[p]["exit"].episode <= cache'[p].episode
                            /\ results[p]["exit"].episode = cache'[p].episode
                                  => cache'[p].held = 0
    BY <1>1 DEF EpisodesAgree, HasResult
  <2>1. CASE p # q BY <1>5, <2>1 DEF IInv, EpisodesAgree
  <2>2. CASE p = q
    <3>1. ~HasResult(q, "resolution") BY UnresolvedHasNone DEF EntryFill
    <3>2. HasResult(q, "exit") => results[q]["exit"].episode < episode
      <4>1. HasResult(q, "exit") =>
              /\ results[q]["exit"].episode <= cache[q].episode
              /\ results[q]["exit"].episode = cache[q].episode => cache[q].held = 0
        BY DEF IInv, EpisodesAgree
      <4>2. results[q]["exit"].episode \in Nat /\ cache[q].episode \in Nat
        BY <1>3, ResultTypes, CacheTypes
      <4> QED BY <4>1, <4>2
    <3>3. cache'[q].held = held /\ cache'[q].episode = episode BY <1>4
    <3>4. results[q]["exit"].episode \in Nat BY <1>3, ResultTypes
    <3> HIDE DEF held, episode
    <3> QED BY <1>6, <2>2, <3>1, <3>2, <3>3, <3>4
  <2> QED BY <2>1, <2>2
<1>9. RowsFollow'
  <2> SUFFICES ASSUME NEW p \in Traded PROVE row[p].episode <= cache'[p].episode
    BY <1>1 DEF RowsFollow, IInv
  <2>1. row[p].episode <= cache[p].episode BY DEF IInv, RowsFollow
  <2>2. row[p].episode \in Nat BY <1>3 DEF TypeOK
  <2> QED BY <1>3, <1>4, <1>5, <2>1, <2>2, CacheTypes
<1>10. ExitIsOver'
  <2> SUFFICES ASSUME NEW p \in Traded,
                      HasResult(p, "resolution"), ~Exempt(results[p]["resolution"])
               PROVE  exitOrder[p] = 0 /\ ~FillPending(p)'
                      /\ (cache'[p].held > 0 \/ cache'[p].byExit = FALSE)
    BY <1>1 DEF ExitIsOver, HasResult
  <2>1. p # q BY UnresolvedHasNone DEF EntryFill
  <2>2. ~FillPending(p)' BY DEF EntryFill, FillPending
  <2> QED BY <1>5, <2>1, <2>2 DEF IInv, ExitIsOver
<1> QED BY <1>1, <1>7, <1>8, <1>9, <1>10, StoreUntouched DEF IInv

LEMMA SubmitExitKeeps ==
    ASSUME IInv, NEW q \in Traded, SubmitExit(q) PROVE IInv'
<1> USE PositionSets
<1>1. UNCHANGED <<mode, replays, cache, closeOrder, callbacks, settled, registered,
                  resolved, results, row, logged, restarts, faults>>
  BY DEF SubmitExit, store
<1>2. exitOrder' = [exitOrder EXCEPT ![q] = cache[q].held] BY DEF SubmitExit
<1>3. TypeOK' BY <1>1, <1>2, CacheTypes DEF IInv, TypeOK
<1>4. EpisodesAgree' /\ RowsFollow' BY <1>1 DEF IInv, EpisodesAgree, RowsFollow, HasResult
<1>5. ExitIsOver'
  <2> SUFFICES ASSUME NEW p \in Traded,
                      HasResult(p, "resolution"), ~Exempt(results[p]["resolution"])
               PROVE  exitOrder'[p] = 0 /\ ~FillPending(p)
                      /\ (cache[p].held > 0 \/ cache[p].byExit = FALSE)
    BY <1>1 DEF ExitIsOver, HasResult, FillPending
  <2>1. p # q BY UnresolvedHasNone DEF SubmitExit
  <2>2. exitOrder'[p] = exitOrder[p] BY <1>2, <2>1 DEF IInv, TypeOK
  <2> QED BY <2>2 DEF IInv, ExitIsOver
<1> QED BY <1>1, <1>3, <1>4, <1>5, StoreUntouched DEF IInv

(* A sale: shares leave a position that is not empty, in the same episode. *)
LEMMA SaleKeepsEpisodes ==
    ASSUME IInv, NEW q \in Traded, NEW c,
           cache' = [cache EXCEPT ![q] = c],
           c \in [held : 0 .. MaxHeld, episode : 0 .. MaxEpisodes, sold : Nat,
                  byExit : BOOLEAN],
           c.episode = cache[q].episode, cache[q].held > 0,
           UNCHANGED <<resolved, results, row>>
    PROVE  /\ EpisodesAgree' /\ RowsFollow'
           /\ cache' \in [Traded -> [held : 0 .. MaxHeld, episode : 0 .. MaxEpisodes,
                                     sold : Nat, byExit : BOOLEAN]]
           /\ cache'[q] = c
           /\ \A p \in Traded : p # q => cache'[p] = cache[p]
<1> USE PositionSets
<1>1. cache'[q] = c /\ \A p \in Traded : p # q => cache'[p] = cache[p]
  BY DEF IInv, TypeOK
<1>2. \A p \in Traded : cache'[p].episode = cache[p].episode BY <1>1
<1>3. cache' \in [Traded -> [held : 0 .. MaxHeld, episode : 0 .. MaxEpisodes,
                             sold : Nat, byExit : BOOLEAN]]
  BY DEF IInv, TypeOK
<1>4. EpisodesAgree'
  <2> SUFFICES ASSUME NEW p \in Traded
               PROVE  /\ cache'[p].held > 0 => cache'[p].episode > 0
                      /\ HasResult(p, "resolution") =>
                            /\ resolved[p]
                            /\ results[p]["resolution"].episode = cache'[p].episode
                      /\ HasResult(p, "exit") =>
                            /\ results[p]["exit"].episode <= cache'[p].episode
                            /\ results[p]["exit"].episode = cache'[p].episode
                                  => cache'[p].held = 0
    BY DEF EpisodesAgree, HasResult
  <2>1. CASE p # q BY <1>1, <2>1 DEF IInv, EpisodesAgree
  <2>2. CASE p = q
    <3>1. cache'[q].episode > 0 BY <1>2 DEF IInv, EpisodesAgree
    <3>2. cache[q].held # 0 BY CacheTypes DEF IInv
    <3>3. HasResult(q, "exit") => results[q]["exit"].episode # cache[q].episode
      BY <3>2 DEF IInv, EpisodesAgree
    <3> QED BY <1>2, <2>2, <3>1, <3>3 DEF IInv, EpisodesAgree
  <2> QED BY <2>1, <2>2
<1>5. RowsFollow' BY <1>2 DEF IInv, RowsFollow
<1> QED BY <1>1, <1>3, <1>4, <1>5

LEMMA ExitFillKeeps ==
    ASSUME IInv, NEW q \in Traded, ExitFill(q) PROVE IInv'
<1> USE PositionSets
<1>1. UNCHANGED <<mode, replays, closeOrder, settled, registered, resolved,
                  results, row, logged, restarts, faults>>
  BY DEF ExitFill, store
<1>2. PICK n \in 1 .. exitOrder[q], goesOn \in BOOLEAN :
          /\ n <= cache[q].held
          /\ cache' = [cache EXCEPT
                ![q] = [held |-> @.held - n, episode |-> @.episode,
                        sold |-> @.sold + n, byExit |-> TRUE]]
          /\ exitOrder' = [exitOrder EXCEPT
                ![q] = IF goesOn /\ cache'[q].held > 0 THEN @ - n ELSE 0]
  BY DEF ExitFill
<1> DEFINE c == [held |-> cache[q].held - n, episode |-> cache[q].episode,
                 sold |-> cache[q].sold + n, byExit |-> TRUE]
<1>3. TypeOK BY DEF IInv
<1>4. cache' = [cache EXCEPT ![q] = c] BY <1>2
<1>5. n \in Nat /\ n >= 1 /\ n <= exitOrder[q] BY <1>2, <1>3, CacheTypes
<1>6. c \in [held : 0 .. MaxHeld, episode : 0 .. MaxEpisodes, sold : Nat, byExit : BOOLEAN]
  BY <1>2, <1>3, <1>5, CacheTypes
<1>7. cache[q].held > 0 BY <1>2, <1>3, <1>5, CacheTypes
<1>8. c.episode = cache[q].episode OBVIOUS
<1> HIDE DEF c
<1>9. /\ EpisodesAgree' /\ RowsFollow'
      /\ cache' \in [Traded -> [held : 0 .. MaxHeld, episode : 0 .. MaxEpisodes,
                                sold : Nat, byExit : BOOLEAN]]
      /\ \A p \in Traded : p # q => cache'[p] = cache[p]
  BY <1>1, <1>4, <1>6, <1>7, <1>8, SaleKeepsEpisodes
<1>10. TypeOK'
  <2> DEFINE left == IF goesOn /\ cache'[q].held > 0 THEN exitOrder[q] - n ELSE 0
  <2>3. left \in 0 .. MaxHeld BY <1>3, <1>5, CacheTypes
  <2>4. exitOrder' = [exitOrder EXCEPT ![q] = left] BY <1>2
  <2> HIDE DEF left
  <2>1. exitOrder' \in [Traded -> 0 .. MaxHeld] BY <1>3, <2>3, <2>4 DEF TypeOK
  <2>2. callbacks' \in Seq({"fill", "position"} \X Traded) BY DEF ExitFill
  <2> QED BY <1>1, <1>3, <1>9, <2>1, <2>2 DEF TypeOK
<1>11. ExitIsOver'
  <2> SUFFICES ASSUME NEW p \in Traded,
                      HasResult(p, "resolution"), ~Exempt(results[p]["resolution"])
               PROVE  exitOrder'[p] = 0 /\ ~FillPending(p)'
                      /\ (cache'[p].held > 0 \/ cache'[p].byExit = FALSE)
    BY <1>1 DEF ExitIsOver, HasResult
  <2>1. exitOrder[p] = 0 BY DEF IInv, ExitIsOver
  <2>2. p # q BY <1>5, <2>1
  <2>3. exitOrder'[p] = exitOrder[p] BY <1>2, <1>3, <2>2 DEF TypeOK
  <2>4. ~FillPending(p)' BY <2>2 DEF ExitFill, FillPending
  <2> QED BY <1>9, <2>1, <2>2, <2>3, <2>4 DEF IInv, ExitIsOver
<1> QED BY <1>1, <1>9, <1>10, <1>11, StoreUntouched DEF IInv

LEMMA CloseFillKeeps ==
    ASSUME IInv, NEW q \in Traded, CloseFill(q) PROVE IInv'
<1> USE PositionSets
<1>1. UNCHANGED <<mode, replays, exitOrder, settled, registered, resolved,
                  results, row, logged, restarts, faults>>
  BY DEF CloseFill, store
<1>2. PICK n \in 1 .. cache[q].held, goesOn \in BOOLEAN :
          /\ cache' = [cache EXCEPT
                ![q] = [held |-> @.held - n, episode |-> @.episode,
                        sold |-> @.sold, byExit |-> FALSE]]
          /\ closeOrder' = [closeOrder EXCEPT ![q] = goesOn /\ cache'[q].held > 0]
  BY DEF CloseFill
<1> DEFINE c == [held |-> cache[q].held - n, episode |-> cache[q].episode,
                 sold |-> cache[q].sold, byExit |-> FALSE]
<1>3. TypeOK BY DEF IInv
<1>4. cache' = [cache EXCEPT ![q] = c] BY <1>2
<1>5. n \in Nat /\ n >= 1 /\ cache[q].held > 0 BY <1>2, <1>3, CacheTypes
<1>6. c \in [held : 0 .. MaxHeld, episode : 0 .. MaxEpisodes, sold : Nat, byExit : BOOLEAN]
  BY <1>2, <1>3, <1>5, CacheTypes
<1>7. c.episode = cache[q].episode /\ c.byExit = FALSE OBVIOUS
<1> HIDE DEF c
<1>8. /\ EpisodesAgree' /\ RowsFollow'
      /\ cache' \in [Traded -> [held : 0 .. MaxHeld, episode : 0 .. MaxEpisodes,
                                sold : Nat, byExit : BOOLEAN]]
      /\ cache'[q] = c
      /\ \A p \in Traded : p # q => cache'[p] = cache[p]
  BY <1>1, <1>4, <1>5, <1>6, <1>7, SaleKeepsEpisodes
<1>9. TypeOK'
  <2>1. closeOrder' \in [Traded -> BOOLEAN] BY <1>2, <1>3 DEF TypeOK
  <2>2. callbacks' \in Seq({"fill", "position"} \X Traded) BY DEF CloseFill
  <2> QED BY <1>1, <1>3, <1>8, <2>1, <2>2 DEF TypeOK
<1>10. ExitIsOver'
  <2> SUFFICES ASSUME NEW p \in Traded,
                      HasResult(p, "resolution"), ~Exempt(results[p]["resolution"])
               PROVE  exitOrder[p] = 0 /\ ~FillPending(p)'
                      /\ (cache'[p].held > 0 \/ cache'[p].byExit = FALSE)
    BY <1>1 DEF ExitIsOver, HasResult
  <2>1. ~FillPending(p)' BY DEF CloseFill, FillPending
  <2>2. cache'[p].held > 0 \/ cache'[p].byExit = FALSE
    BY <1>7, <1>8 DEF IInv, ExitIsOver
  <2> QED BY <2>1, <2>2 DEF IInv, ExitIsOver
<1> QED BY <1>1, <1>8, <1>9, <1>10, StoreUntouched DEF IInv

(* Steps that only end an order, resolve a market or repeat a callback.    *)
LEMMA ExitKilledKeeps ==
    ASSUME IInv, NEW q \in Traded, ExitKilled(q) PROVE IInv'
<1> USE PositionSets
<1>1. UNCHANGED <<mode, replays, cache, closeOrder, callbacks, settled, registered,
                  resolved, results, row, logged, restarts, faults>>
  BY DEF ExitKilled, store
<1>2. exitOrder' = [exitOrder EXCEPT ![q] = 0] BY DEF ExitKilled
<1>3. TypeOK' BY <1>1, <1>2 DEF IInv, TypeOK
<1>4. EpisodesAgree' /\ RowsFollow' BY <1>1 DEF IInv, EpisodesAgree, RowsFollow, HasResult
<1>5. \A p \in Traded : exitOrder[p] = 0 => exitOrder'[p] = 0
  BY <1>2 DEF IInv, TypeOK
<1>6. ExitIsOver' BY <1>1, <1>5 DEF IInv, ExitIsOver, HasResult, FillPending
<1> QED BY <1>1, <1>3, <1>4, <1>6, StoreUntouched DEF IInv

LEMMA CloseKilledKeeps ==
    ASSUME IInv, NEW q \in Traded, CloseKilled(q) PROVE IInv'
<1>1. UNCHANGED <<mode, replays, cache, exitOrder, callbacks, settled, registered,
                  resolved, results, row, logged, restarts, faults>>
  BY DEF CloseKilled, store, engine
<1>2. closeOrder' = [closeOrder EXCEPT ![q] = FALSE] BY DEF CloseKilled
<1>3. TypeOK' BY <1>1, <1>2 DEF IInv, TypeOK
<1>4. EpisodesAgree' /\ RowsFollow' BY <1>1 DEF IInv, EpisodesAgree, RowsFollow, HasResult
<1>5. ExitIsOver' BY <1>1 DEF IInv, ExitIsOver, HasResult, FillPending
<1> QED BY <1>1, <1>3, <1>4, <1>5, StoreUntouched DEF IInv

LEMMA ResolveKeeps ==
    ASSUME IInv, NEW q \in Positions, Resolve(q) PROVE IInv'
<1> USE PositionSets
<1>1. UNCHANGED <<mode, replays, cache, exitOrder, closeOrder, callbacks, settled,
                  registered, results, row, logged, restarts, faults>>
  BY DEF Resolve, store, engine
<1>2. resolved' = [resolved EXCEPT ![q] = TRUE] BY DEF Resolve
<1>3. TypeOK' BY <1>1, <1>2 DEF IInv, TypeOK
<1>4. \A p \in Positions : resolved[p] => resolved'[p] BY <1>2 DEF IInv, TypeOK
<1>5. EpisodesAgree' /\ RowsFollow'
  BY <1>1, <1>4 DEF IInv, EpisodesAgree, RowsFollow, HasResult
<1>6. ExitIsOver' BY <1>1 DEF IInv, ExitIsOver, HasResult, FillPending
<1> QED BY <1>1, <1>3, <1>5, <1>6, StoreUntouched DEF IInv

LEMMA ReplayFillKeeps ==
    ASSUME IInv, NEW q \in Traded, ReplayFill(q) PROVE IInv'
<1> USE PositionSets
<1>1. UNCHANGED <<mode, cache, exitOrder, closeOrder, settled, registered, resolved,
                  results, row, logged, restarts, faults>>
  BY DEF ReplayFill, store, engine
<1>2. TypeOK'
  <2>1. callbacks' \in Seq({"fill", "position"} \X Traded) /\ replays' \subseteq Traded
    BY DEF ReplayFill, IInv, TypeOK
  <2> QED BY <1>1, <2>1 DEF IInv, TypeOK
<1>3. EpisodesAgree' /\ RowsFollow' BY <1>1 DEF IInv, EpisodesAgree, RowsFollow, HasResult
<1>4. ExitIsOver'
  <2> SUFFICES ASSUME NEW p \in Traded,
                      HasResult(p, "resolution"), ~Exempt(results[p]["resolution"])
               PROVE  ~FillPending(p)'
    BY <1>1 DEF ExitIsOver, HasResult, IInv
  <2>1. cache[p].held > 0 \/ cache[p].byExit = FALSE BY DEF IInv, ExitIsOver
  <2>2. cache[q].held = 0 /\ cache[q].byExit = TRUE
    BY CacheTypes DEF ReplayFill, IInv
  <2>3. p # q BY <2>1, <2>2
  <2> QED BY <2>3 DEF ReplayFill, FillPending
<1> QED BY <1>1, <1>2, <1>3, <1>4, StoreUntouched DEF IInv

-----------------------------------------------------------------------------
(* The callbacks.                                                          *)

RowType == [status : {"absent", "OPEN", "CLOSED"}, at : Nat,
            episode : 0 .. MaxEpisodes, quantity : Nat, rich : BOOLEAN]

(* Closing a row changes its status only.                                  *)
LEMMA ClosedRowIs ==
    ASSUME NEW r \in RowType, NEW c, c = ClosedRow(r)
    PROVE  /\ c \in RowType
           /\ c.episode = r.episode /\ c.at = r.at /\ c.rich = r.rich
           /\ c.status # "OPEN"
           /\ c.status = "absent" => r.status = "absent"
           /\ r.status = "absent" => c.status = "absent"
BY DEF ClosedRow, RowType

LEMMA RowTypes ==
    ASSUME TypeOK, NEW p \in Positions
    PROVE  /\ row[p] \in RowType
           /\ row[p].episode \in Nat /\ row[p].at \in Nat /\ row[p].quantity \in Nat
           /\ row[p].rich \in BOOLEAN
BY DEF TypeOK, RowType

(* Popping a callback leaves no fill pending that was not.                 *)
LEMMA PoppedFills ==
    ASSUME TypeOK, callbacks # << >>, callbacks' = Tail(callbacks), NEW p
    PROVE  /\ FillPending(p)' => FillPending(p)
           /\ callbacks' \in Seq({"fill", "position"} \X Traded)
           /\ callbacks[1][2] \in Traded
           /\ callbacks[1][1] = "fill" => FillPending(callbacks[1][2])
<1>1. callbacks \in Seq({"fill", "position"} \X Traded) BY DEF TypeOK
<1>2. callbacks' \in Seq({"fill", "position"} \X Traded) BY <1>1
<1>3. ASSUME NEW i \in DOMAIN callbacks'
      PROVE  i + 1 \in DOMAIN callbacks /\ callbacks'[i] = callbacks[i + 1]
  BY <1>1, <1>3
<1>4. FillPending(p)' => FillPending(p) BY <1>3 DEF FillPending
<1>5. 1 \in DOMAIN callbacks /\ callbacks[1] \in {"fill", "position"} \X Traded BY <1>1
<1>6. callbacks[1][1] = "fill" => FillPending(callbacks[1][2])
  <2>1. callbacks[1] = <<callbacks[1][1], callbacks[1][2]>> BY <1>5
  <2> QED BY <1>5, <2>1 DEF FillPending
<1> QED BY <1>2, <1>4, <1>5, <1>6

(* The row of a position event: of the episode of the Cache, later than    *)
(* half of it only once the position is closed.                            *)
LEMMA EventRowIs ==
    ASSUME IInv, NEW p \in Traded, NEW r, r = EventRow(cache[p])
    PROVE  /\ r \in RowType
           /\ r.episode = cache[p].episode /\ r.rich = FALSE
           /\ r.status # "absent"
           /\ r.status = "OPEN" => r.episode > 0 /\ r.at = 2 * r.episode - 1
           /\ r.at >= 2 * r.episode - 1
<1>1. cache[p].held > 0 => cache[p].episode > 0 BY DEF IInv, EpisodesAgree
<1>2. cache[p].held \in Nat /\ cache[p].episode \in 0 .. MaxEpisodes
  BY CacheTypes DEF IInv
<1>3. EventAt(cache[p]) \in Nat /\ EventAt(cache[p]) >= 2 * cache[p].episode - 1
      /\ (cache[p].held > 0 => EventAt(cache[p]) = 2 * cache[p].episode - 1)
  BY <1>1, <1>2 DEF EventAt
<1> QED BY <1>1, <1>2, <1>3 DEF EventRow, RowType

LEMMA FaultsAreBounded ==
    ASSUME TypeOK, Fault \/ UNCHANGED faults PROVE faults' \in 0 .. MaxFaults
BY DEF TypeOK, Fault

LEMMA HandlePositionKeeps ==
    ASSUME IInv, HandlePosition PROVE IInv'
<1> USE PositionSets
<1> DEFINE q == callbacks[1][2]
           new == EventRow(cache[q])
           old == row[q]
<1>1. UNCHANGED <<mode, replays, cache, exitOrder, closeOrder, settled, registered,
                  resolved, results, restarts>>
  BY DEF HandlePosition, engine
<1>2. callbacks # << >> /\ callbacks' = Tail(callbacks) BY DEF HandlePosition
<1>3. TypeOK /\ q \in Traded BY <1>2, PoppedFills DEF IInv
<1>4. \/ UNCHANGED <<row, logged>>
      \/ /\ logged' = [logged EXCEPT
                ![q] = @ \cup {[at |-> new.at, quantity |-> new.quantity]}]
         /\ row' = [row EXCEPT ![q] = Upserted(old, new)]
  BY DEF HandlePosition
<1>5. faults' \in 0 .. MaxFaults
  <2>1. Fault \/ UNCHANGED faults BY DEF HandlePosition
  <2> QED BY <1>3, <2>1, FaultsAreBounded
<1>6. /\ new \in RowType
      /\ new.episode = cache[q].episode /\ new.rich = FALSE
      /\ new.status # "absent"
      /\ new.status = "OPEN" => new.episode > 0 /\ new.at = 2 * new.episode - 1
      /\ new.at >= 2 * new.episode - 1
  BY <1>3, EventRowIs
<1> HIDE DEF new
<1>7. \A p \in Positions : p # q => row'[p] = row[p] BY <1>3, <1>4 DEF TypeOK
<1>8. \/ row'[q] = old
      \/ /\ row'[q] = new
         /\ old.status = "absent" \/ new.at > old.at
  BY <1>3, <1>4 DEF TypeOK, Upserted
<1>9. old \in RowType /\ row'[q] \in RowType BY <1>3, <1>6, <1>8, RowTypes
<1>10. TypeOK'
  <2>1. row' \in [Positions -> RowType] BY <1>3, <1>4, <1>6, <1>9 DEF TypeOK, Upserted, RowType
  <2>2. logged' \in [Positions -> SUBSET [at : Nat, quantity : Nat]]
    <3> DEFINE entry == [at |-> new.at, quantity |-> new.quantity]
    <3>1. entry \in [at : Nat, quantity : Nat] BY <1>6 DEF RowType
    <3>2. \/ UNCHANGED logged
          \/ logged' = [logged EXCEPT ![q] = @ \cup {entry}]
      BY <1>4
    <3> DEFINE entries == logged[q] \cup {entry}
    <3>3. entries \in SUBSET [at : Nat, quantity : Nat] BY <1>3, <3>1 DEF TypeOK
    <3>4. UNCHANGED logged \/ logged' = [logged EXCEPT ![q] = entries] BY <3>2
    <3> DEFINE T == SUBSET [at : Nat, quantity : Nat]
    <3>5. logged \in [Positions -> T] BY <1>3 DEF TypeOK
    <3>6. entries \in T BY <3>3
    <3> HIDE DEF entries, T
    <3>7. logged' \in [Positions -> T] BY <3>4, <3>5, <3>6
    <3> QED BY <3>7 DEF T
  <2>3. callbacks' \in Seq({"fill", "position"} \X Traded) BY <1>2, <1>3, PoppedFills
  <2> QED BY <1>1, <1>3, <1>5, <2>1, <2>2, <2>3 DEF TypeOK, RowType
<1>11. SettledIsDurable' /\ CountedOnce' /\ EpisodesAgree'
  BY <1>1 DEF IInv, SettledIsDurable, CountedOnce, EpisodesAgree, HasResult
<1>12. MigratedIsPlain'
  <2>1. \A p \in Migrated : row'[p] = row[p] BY <1>3, <1>7
  <2> QED BY <1>1, <2>1 DEF IInv, MigratedIsPlain
<1>13. RowsFollow'
  <2> SUFFICES ASSUME NEW p \in Traded
               PROVE  /\ row'[p].episode <= cache[p].episode
                      /\ row'[p].status = "absent" => row'[p].episode = 0
                      /\ row'[p].status # "absent" => row'[p].at >= 2 * row'[p].episode - 1
                      /\ row'[p].rich = FALSE
    BY <1>1 DEF RowsFollow
  <2>1. CASE row'[p] = row[p] BY <2>1 DEF IInv, RowsFollow
  <2>2. CASE p = q /\ row'[p] = new
    <3>1. cache[q].episode \in Nat BY <1>3, CacheTypes
    <3> QED BY <1>6, <2>2, <3>1
  <2> QED BY <1>7, <1>8, <2>1, <2>2
<1>14. ExitIsOver'
  <2>1. \A p : FillPending(p)' => FillPending(p) BY <1>2, <1>3, PoppedFills
  <2> QED BY <1>1, <2>1 DEF IInv, ExitIsOver, HasResult
<1>15. ShownIsClosed'
  <2> SUFFICES ASSUME NEW p \in Positions, NEW k \in Kinds,
                      HasResult(p, k), results[p][k].unshown = FALSE
               PROVE  /\ results[p][k].episode <= row'[p].episode
                      /\ results[p][k].episode = row'[p].episode => row'[p].status # "OPEN"
    BY <1>1 DEF ShownIsClosed, HasResult
  <2>1. /\ results[p][k].episode <= row[p].episode
        /\ results[p][k].episode = row[p].episode => row[p].status # "OPEN"
    BY DEF IInv, ShownIsClosed
  <2>2. CASE row'[p] = row[p] BY <2>1, <2>2
  <2>3. CASE p = q /\ row'[p] = new /\ (old.status = "absent" \/ new.at > old.at)
    <3>1. results[p][k].episode \in Nat /\ old.episode \in Nat /\ old.at \in Nat
          /\ new.episode \in Nat /\ new.at \in Nat
      BY <1>3, <1>6, <1>9, ResultTypes DEF RowType
    <3>2. old.episode <= new.episode BY <1>3, <1>6 DEF IInv, RowsFollow
    <3>3. /\ old.status = "absent" => old.episode = 0
          /\ old.status # "absent" => old.at >= 2 * old.episode - 1
      BY <1>3 DEF IInv, RowsFollow
    <3>4. ASSUME results[p][k].episode = new.episode, new.status = "OPEN" PROVE FALSE
      <4>1. old.episode = new.episode BY <2>1, <2>3, <3>1, <3>2, <3>4
      <4>2. new.episode > 0 /\ new.at = 2 * new.episode - 1 BY <1>6, <3>4
      <4>3. new.at > old.at /\ old.at >= 2 * old.episode - 1
        BY <2>3, <3>3, <4>1, <4>2
      <4> QED BY <3>1, <4>1, <4>2, <4>3
    <3>5. results[p][k].episode <= new.episode BY <2>1, <2>3, <3>1, <3>2
    <3> QED BY <2>3, <3>4, <3>5
  <2> QED BY <1>7, <1>8, <2>2, <2>3
<1> QED BY <1>10, <1>11, <1>12, <1>13, <1>14, <1>15 DEF IInv

(* A result of a known source is on record as one.                         *)
LEMMA ResultIsResult ==
    ASSUME NEW by \in Sources, NEW e \in 0 .. MaxEpisodes, NEW n \in Nat,
           NEW o \in BOOLEAN, NEW u \in BOOLEAN, NEW r,
           r = [episode |-> e, quantity |-> n, by |-> by, overlapped |-> o, unshown |-> u]
    PROVE  r \in Result /\ r # None
BY DEF Result, None, Sources

(* The record of an early exit: how the state changes when the result is   *)
(* written, or is found written already.                                   *)
LEMMA HandleFillKeeps ==
    ASSUME IInv, HandleFill PROVE IInv'
<1> USE PositionSets
<1>0. PICK q \in Traded : q = callbacks[1][2]
  <2>1. callbacks # << >> /\ callbacks' = Tail(callbacks) BY DEF HandleFill
  <2> QED BY <2>1, PoppedFills DEF IInv
<1> DEFINE new == ResultOf(q, "exit", cache[q].episode, cache[q].sold)
           old == results[q]["exit"]
           s == Owner[q]
<1>1. UNCHANGED <<mode, replays, cache, exitOrder, closeOrder, registered, resolved,
                  logged, restarts>>
  BY DEF HandleFill, engine
<1>2. callbacks # << >> /\ callbacks[1][1] = "fill" /\ callbacks' = Tail(callbacks)
  BY DEF HandleFill
<1>3. TypeOK /\ q \in Traded /\ FillPending(q) BY <1>0, <1>2, PoppedFills DEF IInv
<1>4. callbacks' \in Seq({"fill", "position"} \X Traded) BY <1>2, <1>3, PoppedFills
<1>5. faults' \in 0 .. MaxFaults
  <2>1. Fault \/ UNCHANGED faults BY DEF HandleFill
  <2> QED BY <1>3, <2>1, FaultsAreBounded
<1>6. \A p : FillPending(p)' => FillPending(p) BY <1>2, <1>3, PoppedFills
<1>7. CASE UNCHANGED <<settled, results, row>>
  <2>1. TypeOK' BY <1>1, <1>3, <1>4, <1>5, <1>7 DEF TypeOK
  <2>2. EpisodesAgree' /\ RowsFollow'
    BY <1>1, <1>7 DEF IInv, EpisodesAgree, RowsFollow, HasResult
  <2>3. ExitIsOver' BY <1>1, <1>6, <1>7 DEF IInv, ExitIsOver, HasResult
  <2> QED BY <1>7, <2>1, <2>2, <2>3, StoreUntouched DEF IInv
<1>8. CASE /\ cache[q].held = 0
           /\ results' = IF old = None
                         THEN [results EXCEPT ![q]["exit"] = new] ELSE results
           /\ row' = [row EXCEPT ![q] = ClosedRow(@)]
           /\ settled' = [settled EXCEPT ![s] = @ \cup {q}]
  <2>1. /\ new \in Result /\ new # None /\ new.episode = cache[q].episode
        /\ new.unshown = FALSE => cache[q].episode <= row[q].episode
    <3>1. "exit" \in Sources BY DEF Sources
    <3>2. q \in Positions /\ cache[q].episode \in 0 .. MaxEpisodes /\ cache[q].sold \in Nat
      BY <1>3, CacheTypes
    <3> DEFINE o == q \in Traded /\ exitOrder[q] > 0
               u == row[q].episode < cache[q].episode
    <3>3. o \in BOOLEAN /\ u \in BOOLEAN OBVIOUS
    <3>4. u = FALSE => cache[q].episode <= row[q].episode BY <1>3, <3>2, RowTypes
    <3>5. new = [episode |-> cache[q].episode, quantity |-> cache[q].sold,
                 by |-> "exit", overlapped |-> o, unshown |-> u]
      BY Zenon DEF ResultOf
    <3> HIDE DEF new, o, u
    <3>6. new \in Result /\ new # None BY <3>1, <3>2, <3>3, <3>5, ResultIsResult
    <3>7. new.episode = cache[q].episode /\ new.unshown = u BY <3>5
    <3> QED BY <3>4, <3>6, <3>7
  <2> HIDE DEF new
  <2> DEFINE closed == ClosedRow(row[q])
  <2>2. /\ closed \in RowType
        /\ closed.episode = row[q].episode /\ closed.at = row[q].at
        /\ closed.rich = row[q].rich
        /\ closed.status # "OPEN"
        /\ closed.status = "absent" => row[q].status = "absent"
    BY <1>3, RowTypes, ClosedRowIs
  <2>3. row' = [row EXCEPT ![q] = closed] BY <1>8
  <2> HIDE DEF closed
  <2>4. row'[q] = closed /\ \A p \in Positions : p # q => row'[p] = row[p]
    BY <1>3, <2>3 DEF TypeOK
  <2>5. \A p \in Positions, k \in Kinds :
          results'[p][k] = IF p = q /\ k = "exit" /\ old = None THEN new
                           ELSE results[p][k]
    BY <1>3, <1>8 DEF TypeOK
  <2>6. results' \in [Positions -> [Kinds -> Result]]
    BY <1>3, <1>8, <2>1 DEF TypeOK
  <2>7. ASSUME NEW p \in Positions, NEW k \in Kinds, HasResult(p, k)
        PROVE  HasResult(p, k)'
    <3>1. results'[p][k] = new \/ results'[p][k] = results[p][k] BY <2>5
    <3> QED BY <2>1, <2>7, <3>1 DEF HasResult
  <2>8. HasResult(q, "exit")' BY <1>3, <2>1, <2>5 DEF HasResult
  <2>9. s \in Strategies BY <1>3
  <2> DEFINE keys == settled[s] \cup {q}
  <2>10. keys \in SUBSET Positions BY <1>3, <2>9 DEF TypeOK
  <2>11. settled' = [settled EXCEPT ![s] = keys] BY <1>8
  <2>12. settled' \in [Strategies -> SUBSET Positions] /\ settled'[s] = keys
         /\ \A t \in Strategies : t # s => settled'[t] = settled[t]
    <3> HIDE DEF keys
    <3> QED BY <1>3, <2>9, <2>10, <2>11 DEF TypeOK
  <2>13. TypeOK'
    <3>1. row' \in [Positions -> RowType] BY <1>3, <2>2, <2>3 DEF TypeOK, RowType
    <3> QED BY <1>1, <1>3, <1>4, <1>5, <2>6, <2>12, <3>1 DEF TypeOK, RowType
  <2>14. SettledIsDurable'
    <3> SUFFICES ASSUME NEW t \in Strategies, NEW p \in settled'[t]
                 PROVE  \E k \in Kinds : HasResult(p, k)'
      BY DEF SettledIsDurable, HasResult
    <3>1. CASE p = q BY <2>8, <3>1
    <3>2. CASE p # q
      <4>1. p \in settled[t] BY <2>12, <3>2
      <4>2. p \in Positions BY <1>3, <4>1 DEF TypeOK
      <4> QED BY <2>7, <4>1, <4>2 DEF IInv, SettledIsDurable
    <3> QED BY <3>1, <3>2
  <2>15. EpisodesAgree'
    <3> SUFFICES ASSUME NEW p \in Traded
                 PROVE  /\ cache[p].held > 0 => cache[p].episode > 0
                        /\ HasResult(p, "resolution")' =>
                              /\ resolved[p]
                              /\ results'[p]["resolution"].episode = cache[p].episode
                        /\ HasResult(p, "exit")' =>
                              /\ results'[p]["exit"].episode <= cache[p].episode
                              /\ results'[p]["exit"].episode = cache[p].episode
                                    => cache[p].held = 0
      BY <1>1 DEF EpisodesAgree
    <3>1. cache[p].episode \in Nat BY <1>3, CacheTypes
    <3>2. results'[p]["resolution"] = results[p]["resolution"] BY <2>5
    <3>3. CASE p = q /\ old = None
      <4>1. results'[p]["exit"] = new BY <2>5, <3>3
      <4> QED BY <1>8, <2>1, <3>1, <3>2, <3>3, <4>1 DEF IInv, EpisodesAgree, HasResult
    <3>4. CASE ~(p = q /\ old = None)
      <4>1. results'[p]["exit"] = results[p]["exit"] BY <2>5, <3>4
      <4> QED BY <3>2, <4>1 DEF IInv, EpisodesAgree, HasResult
    <3> QED BY <3>3, <3>4
  <2>16. RowsFollow'
    <3> SUFFICES ASSUME NEW p \in Traded
                 PROVE  /\ row'[p].episode <= cache[p].episode
                        /\ row'[p].status = "absent" => row'[p].episode = 0
                        /\ row'[p].status # "absent" => row'[p].at >= 2 * row'[p].episode - 1
                        /\ row'[p].rich = FALSE
      BY <1>1 DEF RowsFollow
    <3>1. CASE p # q BY <2>4, <3>1 DEF IInv, RowsFollow
    <3>2. CASE p = q
      <4>1. row[q].status = "absent" => closed.status = "absent"
        BY DEF closed, ClosedRow
      <4> QED BY <2>2, <2>4, <3>2, <4>1 DEF IInv, RowsFollow
    <3> QED BY <3>1, <3>2
  <2>17. MigratedIsPlain'
    <3>1. \A p \in Migrated : p # q /\ row'[p] = row[p] BY <1>3, <2>4
    <3>2. \A p \in Migrated, k \in Kinds : results'[p][k] = results[p][k]
      BY <2>5, <3>1
    <3> QED BY <3>1, <3>2 DEF IInv, MigratedIsPlain
  <2>18. ExitIsOver'
    <3>1. \A p \in Traded : results'[p]["resolution"] = results[p]["resolution"] BY <2>5
    <3> QED BY <1>1, <1>6, <3>1 DEF IInv, ExitIsOver, HasResult
  <2>19. CountedOnce'
    <3> SUFFICES ASSUME NEW p \in Positions, HasResult(p, "exit")', HasResult(p, "resolution")',
                        results'[p]["exit"].episode = results'[p]["resolution"].episode
                 PROVE  Exempt(results'[p]["resolution"])
      BY DEF CountedOnce, Exempt
    <3>1. results'[p]["resolution"] = results[p]["resolution"] /\ HasResult(p, "resolution")
      BY <2>5 DEF HasResult
    <3>2. CASE p = q BY <1>3, <3>1, <3>2 DEF IInv, ExitIsOver
    <3>3. CASE p # q
      <4>1. results'[p]["exit"] = results[p]["exit"] BY <2>5, <3>3
      <4> QED BY <3>1, <4>1 DEF IInv, CountedOnce, HasResult, Exempt
    <3> QED BY <3>2, <3>3
  <2>20. ShownIsClosed'
    <3> SUFFICES ASSUME NEW p \in Positions, NEW k \in Kinds,
                        HasResult(p, k)', results'[p][k].unshown = FALSE
                 PROVE  /\ results'[p][k].episode <= row'[p].episode
                        /\ results'[p][k].episode = row'[p].episode
                              => row'[p].status # "OPEN"
      BY DEF ShownIsClosed
    <3>1. row'[p].episode = row[p].episode BY <2>2, <2>4
    <3>2. row[p].status # "OPEN" => row'[p].status # "OPEN" BY <2>2, <2>4
    <3>3. CASE results'[p][k] = results[p][k]
      BY <3>1, <3>2, <3>3 DEF IInv, ShownIsClosed, HasResult
    <3>4. CASE p = q /\ results'[p][k] = new BY <2>1, <2>2, <2>4, <3>1, <3>4
    <3> QED BY <2>5, <3>3, <3>4
  <2> QED BY <2>13, <2>14, <2>15, <2>16, <2>17, <2>18, <2>19, <2>20 DEF IInv
<1>9. UNCHANGED <<settled, results, row>>
      \/ ( /\ cache[q].held = 0
           /\ results' = IF old = None
                         THEN [results EXCEPT ![q]["exit"] = new] ELSE results
           /\ row' = [row EXCEPT ![q] = ClosedRow(@)]
           /\ settled' = [settled EXCEPT ![s] = @ \cup {q}] )
  BY <1>0, Zenon DEF HandleFill
<1> QED BY <1>7, <1>8, <1>9

(* The result of a candidate speaks of the episode that the Cache is in;   *)
(* the one of a legacy row of none.                                        *)
SpeaksOf(p, by, r) ==
    /\ r \in Result /\ r # None /\ r.by = by
    /\ p \in Traded => cache[p].held > 0 /\ r.episode = cache[p].episode
    /\ p \in Migrated => r.episode = 0
    /\ r.unshown = FALSE => r.episode <= row[p].episode
    /\ r.overlapped = FALSE /\ p \in Traded => exitOrder[p] = 0

LEMMA SettlementIs ==
    ASSUME TypeOK, RowsFollow, MigratedIsPlain,
           NEW t \in Strategies, NEW p \in InView(t) \cup OpenRows,
           NEW by \in Sources
    PROVE  SpeaksOf(p, by, SettlementOf(t, p, by))
<1> DEFINE r == SettlementOf(t, p, by)
<1> USE PositionSets
<1> DEFINE e == IF p \in InView(t) THEN cache[p].episode ELSE row[p].episode
           n == IF p \in InView(t) THEN cache[p].held ELSE row[p].quantity
           o == p \in Traded /\ exitOrder[p] > 0
           u == row[p].episode < e
<1>1. p \in Positions BY DEF InView, OpenRows
<1>2. p \in InView(t) => p \in Traded /\ cache[p].held > 0 BY DEF InView
<1>3. p \in Traded => p \in InView(t)
  BY DEF RowsFollow, OpenRows
<1>4. e \in 0 .. MaxEpisodes /\ n \in Nat
  <2>1. CASE p \in InView(t) BY <1>2, <2>1, CacheTypes
  <2>2. CASE p \notin InView(t) BY <1>1, <2>2, RowTypes DEF RowType
  <2> QED BY <2>1, <2>2
<1>5. o \in BOOLEAN /\ u \in BOOLEAN OBVIOUS
<1>6. o = FALSE /\ p \in Traded => exitOrder[p] = 0
  <2>1. p \in Traded => exitOrder[p] \in Nat BY CacheTypes
  <2> QED BY <2>1
<1>7. row[p].episode \in Nat BY <1>1, RowTypes
<1>8. u = FALSE => e <= row[p].episode BY <1>4, <1>7
<1>9. r = [episode |-> e, quantity |-> n, by |-> by, overlapped |-> o, unshown |-> u]
  <2>1. CASE p \in InView(t) BY <2>1, Zenon DEF SettlementOf, ResultOf
  <2>2. CASE p \notin InView(t) BY <2>2, Zenon DEF SettlementOf, ResultOf
  <2> QED BY <2>1, <2>2
<1>10. /\ p \in Traded => e = cache[p].episode
       /\ p \in Migrated => e = 0
  BY <1>2, <1>3 DEF MigratedIsPlain
<1> HIDE DEF e, n, o, u, r
<1>11. r \in Result /\ r # None BY <1>4, <1>5, <1>9, ResultIsResult
<1>12. r.episode = e /\ r.by = by /\ r.overlapped = o /\ r.unshown = u BY <1>9
<1>13. SpeaksOf(p, by, r)
  BY <1>2, <1>3, <1>6, <1>8, <1>10, <1>11, <1>12 DEF SpeaksOf
<1> QED BY <1>13 DEF r

(* Settling any of the candidates whose market is resolved: an             *)
(* InstrumentClose asks first that no exit order works, a heartbeat leaves *)
(* that on the record of the result.                                       *)
LEMMA SettleKeeps ==
    ASSUME IInv, Quiet,
           NEW t \in Strategies, NEW due \in SUBSET (InView(t) \cup OpenRows),
           NEW by \in {"close", "poll"}, NEW refused,
           \A p \in due : resolved[p],
           by = "close" => \A p \in due : p \in Traded /\ exitOrder[p] = 0,
           Settle(t, due, by, refused), faults' \in 0 .. MaxFaults,
           UNCHANGED <<mode, replays, engine, callbacks, registered, resolved,
                       logged, restarts>>
    PROVE  IInv'
<1> USE PositionSets
<1>1. TypeOK /\ RowsFollow /\ MigratedIsPlain BY DEF IInv
<1>2. UNCHANGED <<cache, exitOrder>> BY DEF engine
<1>3. due \subseteq Positions BY DEF InView, OpenRows
<1>4. by \in Sources BY DEF Sources
<1> DEFINE created == Created(due \ refused)
           done == Recorded(t, due \ refused, by)
           new(p) == SettlementOf(t, p, by)
<1>5. /\ created \subseteq done /\ done \subseteq due
      /\ \A p \in created : ~HasResult(p, "resolution")
      /\ \A p \in done : p \in created \/ HasResult(p, "resolution")
  BY DEF Created, Recorded, HasResult
<1>6. \A p \in due :
        /\ new(p) \in Result /\ new(p) # None /\ new(p).by = by
        /\ p \in Traded => cache[p].held > 0 /\ new(p).episode = cache[p].episode
        /\ p \in Migrated => new(p).episode = 0
        /\ new(p).unshown = FALSE => new(p).episode <= row[p].episode
        /\ new(p).overlapped = FALSE /\ p \in Traded => exitOrder[p] = 0
  <2>1. \A p \in due : SpeaksOf(p, by, SettlementOf(t, p, by))
    BY <1>1, <1>4, SettlementIs, Zenon
  <2> QED BY <2>1 DEF SpeaksOf
<1>7. /\ results' = [p \in Positions |->
                      IF p \in created
                      THEN [results[p] EXCEPT !["resolution"] = new(p)]
                      ELSE results[p]]
      /\ row' = [p \in Positions |-> IF p \in done THEN ClosedRow(row[p]) ELSE row[p]]
      /\ settled' = [settled EXCEPT ![t] = @ \cup done]
      /\ closeOrder' = NativeCloses(t, done)
  BY Zenon DEF Settle
<1> HIDE DEF created, done, new
<1>8. \A p \in Positions :
        /\ results'[p] \in [Kinds -> Result]
        /\ results'[p]["exit"] = results[p]["exit"]
        /\ results'[p]["resolution"] = IF p \in created THEN new(p)
                                       ELSE results[p]["resolution"]
  <2> SUFFICES ASSUME NEW p \in Positions
               PROVE  /\ results'[p] \in [Kinds -> Result]
                      /\ results'[p]["exit"] = results[p]["exit"]
                      /\ results'[p]["resolution"] = IF p \in created THEN new(p)
                                                     ELSE results[p]["resolution"]
    OBVIOUS
  <2>1. results[p] \in [Kinds -> Result] BY <1>1 DEF TypeOK
  <2>2. "exit" # "resolution" OBVIOUS
  <2>3. CASE p \in created
    <3>1. results'[p] = [results[p] EXCEPT !["resolution"] = new(p)] BY <1>7, <2>3
    <3>2. new(p) \in Result BY <1>5, <1>6, <2>3
    <3> QED BY <2>1, <2>2, <2>3, <3>1, <3>2
  <2>4. CASE p \notin created BY <1>7, <2>1, <2>4
  <2> QED BY <2>3, <2>4
<1>9. \A p \in Positions :
        /\ row'[p] \in RowType
        /\ row'[p].episode = row[p].episode /\ row'[p].at = row[p].at
        /\ row'[p].rich = row[p].rich
        /\ row'[p].status = "absent" => row[p].status = "absent"
        /\ row[p].status = "absent" => row'[p].status = "absent"
        /\ row[p].status # "OPEN" => row'[p].status # "OPEN"
        /\ p \in done => row'[p].status # "OPEN"
  <2> SUFFICES ASSUME NEW p \in Positions
               PROVE  /\ row'[p] \in RowType
                      /\ row'[p].episode = row[p].episode /\ row'[p].at = row[p].at
                      /\ row'[p].rich = row[p].rich
                      /\ row'[p].status = "absent" => row[p].status = "absent"
                      /\ row[p].status = "absent" => row'[p].status = "absent"
                      /\ row[p].status # "OPEN" => row'[p].status # "OPEN"
                      /\ p \in done => row'[p].status # "OPEN"
    OBVIOUS
  <2>1. row[p] \in RowType BY <1>1, RowTypes
  <2>2. CASE p \in done
    <3>1. row'[p] = ClosedRow(row[p]) BY <1>7, <2>2
    <3> QED BY <2>1, <3>1, ClosedRowIs
  <2>3. CASE p \notin done BY <1>7, <2>1, <2>3
  <2> QED BY <2>2, <2>3
<1>10. settled' \in [Strategies -> SUBSET Positions]
       /\ \A u \in Strategies : settled'[u] \subseteq settled[u] \cup done
  <2>1. settled \in [Strategies -> SUBSET Positions] BY <1>1 DEF TypeOK
  <2>2. done \subseteq Positions BY <1>3, <1>5
  <2> QED BY <1>7, <2>1, <2>2
<1>11. \A p \in Positions, k \in Kinds : HasResult(p, k) => HasResult(p, k)'
  <2> SUFFICES ASSUME NEW p \in Positions, NEW k \in Kinds, results[p][k] # None
               PROVE  results'[p][k] # None
    BY DEF HasResult
  <2>1. k = "exit" \/ k = "resolution" BY DEF Kinds
  <2> QED BY <1>5, <1>6, <1>8, <2>1
<1>12. \A p \in done : results'[p]["resolution"] # None
  <2> SUFFICES ASSUME NEW p \in done PROVE results'[p]["resolution"] # None OBVIOUS
  <2> QED BY <1>3, <1>5, <1>6, <1>8 DEF HasResult
<1>13. TypeOK'
  <2>1. results' \in [Positions -> [Kinds -> Result]] BY <1>7, <1>8
  <2>2. row' \in [Positions -> RowType] BY <1>7, <1>9
  <2>3. closeOrder' \in [Traded -> BOOLEAN]
    BY <1>1, <1>7 DEF NativeCloses, TypeOK
  <2> QED BY <1>1, <1>2, <1>10, <2>1, <2>2, <2>3 DEF TypeOK, RowType
<1>14. SettledIsDurable'
  <2> SUFFICES ASSUME NEW u \in Strategies, NEW p \in settled'[u]
               PROVE  \E k \in Kinds : HasResult(p, k)'
    BY DEF SettledIsDurable, HasResult
  <2>1. CASE p \in done BY <1>12, <2>1 DEF HasResult
  <2>2. CASE p \in settled[u]
    <3>1. p \in Positions BY <1>1, <2>2 DEF TypeOK
    <3>2. PICK k \in Kinds : HasResult(p, k) BY <2>2 DEF IInv, SettledIsDurable
    <3> QED BY <1>11, <3>1, <3>2
  <2> QED BY <1>10, <2>1, <2>2
<1>15. EpisodesAgree'
  <2> SUFFICES ASSUME NEW p \in Traded
               PROVE  /\ cache[p].held > 0 => cache[p].episode > 0
                      /\ results'[p]["resolution"] # None =>
                            /\ resolved[p]
                            /\ results'[p]["resolution"].episode = cache[p].episode
                      /\ results'[p]["exit"] # None =>
                            /\ results'[p]["exit"].episode <= cache[p].episode
                            /\ results'[p]["exit"].episode = cache[p].episode
                                  => cache[p].held = 0
    BY <1>2 DEF EpisodesAgree, HasResult
  <2>1. /\ cache[p].held > 0 => cache[p].episode > 0
        /\ results[p]["resolution"] # None =>
              resolved[p] /\ results[p]["resolution"].episode = cache[p].episode
        /\ results[p]["exit"] # None =>
              /\ results[p]["exit"].episode <= cache[p].episode
              /\ results[p]["exit"].episode = cache[p].episode => cache[p].held = 0
    BY DEF IInv, EpisodesAgree, HasResult
  <2>2. p \in Positions OBVIOUS
  <2>3. results'[p]["exit"] = results[p]["exit"] BY <1>8, <2>2
  <2>4. CASE p \in created
    <3>1. results'[p]["resolution"] = new(p) BY <1>8, <2>2, <2>4
    <3>2. resolved[p] /\ new(p).episode = cache[p].episode BY <1>5, <1>6, <2>4
    <3> QED BY <2>1, <2>3, <3>1, <3>2
  <2>5. CASE p \notin created
    <3>1. results'[p]["resolution"] = results[p]["resolution"] BY <1>8, <2>2, <2>5
    <3> QED BY <2>1, <2>3, <3>1
  <2> QED BY <2>4, <2>5
<1>16. RowsFollow'
  <2> SUFFICES ASSUME NEW p \in Traded
               PROVE  /\ row'[p].episode <= cache[p].episode
                      /\ row'[p].status = "absent" => row'[p].episode = 0
                      /\ row'[p].status # "absent" => row'[p].at >= 2 * row'[p].episode - 1
                      /\ row'[p].rich = FALSE
    BY <1>2 DEF RowsFollow
  <2>1. p \in Positions OBVIOUS
  <2>2. /\ row[p].episode <= cache[p].episode
        /\ row[p].status = "absent" => row[p].episode = 0
        /\ row[p].status # "absent" => row[p].at >= 2 * row[p].episode - 1
        /\ row[p].rich = FALSE
    BY DEF IInv, RowsFollow
  <2>3. /\ row'[p].episode = row[p].episode /\ row'[p].at = row[p].at
        /\ row'[p].rich = row[p].rich
        /\ row'[p].status = "absent" => row[p].status = "absent"
        /\ row'[p].status # "absent" => row[p].status # "absent"
    BY <1>9, <2>1, Zenon
  <2> QED BY <2>2, <2>3
<1>17. MigratedIsPlain'
  <2> SUFFICES ASSUME NEW p \in Migrated
               PROVE  /\ row'[p].episode = 0
                      /\ results'[p]["exit"] = None
                      /\ results'[p]["resolution"].episode = 0
    BY DEF MigratedIsPlain
  <2> QED BY <1>1, <1>5, <1>6, <1>8, <1>9 DEF MigratedIsPlain
<1>18. ExitIsOver'
  <2> SUFFICES ASSUME NEW p \in Traded, results'[p]["resolution"] # None,
                      ~Exempt(results'[p]["resolution"])
               PROVE  /\ exitOrder[p] = 0
                      /\ ~FillPending(p)
                      /\ cache[p].held > 0 \/ cache[p].byExit = FALSE
    BY <1>2 DEF ExitIsOver, HasResult, FillPending, Exempt
  <2>1. CASE p \in created
    <3>1. new(p).by = by /\ cache[p].held > 0 /\ results'[p]["resolution"] = new(p)
      BY <1>5, <1>6, <1>8, <2>1
    <3>2. new(p).overlapped \in BOOLEAN BY <1>5, <1>6, <2>1 DEF Result
    <3>3. exitOrder[p] = 0
      <4>1. CASE by = "close" BY <1>5, <2>1, <4>1
      <4>2. CASE by = "poll" BY <1>5, <1>6, <2>1, <3>1, <3>2, <4>2 DEF Exempt
      <4> QED BY <4>1, <4>2
    <3> QED BY <3>1, <3>3, QuietHasNoFill
  <2>2. CASE p \notin created
    BY <1>8, <2>2 DEF IInv, ExitIsOver, HasResult
  <2> QED BY <2>1, <2>2
<1>19. CountedOnce'
  <2> SUFFICES ASSUME NEW p \in Positions, results'[p]["exit"] # None,
                      results'[p]["resolution"] # None,
                      results'[p]["exit"].episode = results'[p]["resolution"].episode
               PROVE  Exempt(results'[p]["resolution"])
    BY DEF CountedOnce, Exempt, HasResult
  <2>1. CASE p \in created
    <3>1. p \in Traded BY <1>1, <1>8, <2>1 DEF MigratedIsPlain
    <3>2. cache[p].held > 0 /\ results[p]["exit"].episode = cache[p].episode
      BY <1>5, <1>6, <1>8, <2>1, <3>1
    <3> QED BY <1>8, <3>1, <3>2 DEF IInv, EpisodesAgree, HasResult
  <2>2. CASE p \notin created
    BY <1>8, <2>2 DEF IInv, CountedOnce, HasResult, Exempt
  <2> QED BY <2>1, <2>2
<1>20. ShownIsClosed'
  <2> SUFFICES ASSUME NEW p \in Positions, NEW k \in Kinds,
                      results'[p][k] # None, results'[p][k].unshown = FALSE
               PROVE  /\ results'[p][k].episode <= row'[p].episode
                      /\ results'[p][k].episode = row'[p].episode
                            => row'[p].status # "OPEN"
    BY DEF ShownIsClosed, HasResult
  <2>1. CASE k = "resolution" /\ p \in created
    BY <1>5, <1>6, <1>8, <1>9, <2>1
  <2>2. CASE ~(k = "resolution" /\ p \in created)
    <3>1. results'[p][k] = results[p][k] BY <1>8, <2>2 DEF Kinds
    <3> QED BY <1>9, <3>1 DEF IInv, ShownIsClosed, HasResult
  <2> QED BY <2>1, <2>2
<1> QED BY <1>13, <1>14, <1>15, <1>16, <1>17, <1>18, <1>19, <1>20 DEF IInv

LEMMA InstrumentCloseKeeps ==
    ASSUME IInv, NEW p \in Traded, InstrumentClose(p) PROVE IInv'
<1> USE PositionSets
<1>1. /\ Quiet /\ resolved[p] /\ p \in InView(Owner[p]) /\ exitOrder[p] = 0
      /\ UNCHANGED <<mode, replays, engine, callbacks, registered, resolved,
                     logged, restarts>>
  BY DEF InstrumentClose
<1>2. \E refused : Settle(Owner[p], {p}, "close", refused)
  BY Zenon DEF InstrumentClose
<1>3. Fault \/ UNCHANGED faults BY DEF InstrumentClose
<1>4. faults' \in 0 .. MaxFaults BY <1>3, FaultsAreBounded DEF IInv
<1>5. Owner[p] \in Strategies OBVIOUS
<1>6. {p} \in SUBSET (InView(Owner[p]) \cup OpenRows) BY <1>1
<1>7. \A q \in {p} : q \in Traded /\ exitOrder[q] = 0 /\ resolved[q] BY <1>1
<1> QED BY <1>1, <1>2, <1>4, <1>5, <1>6, <1>7, SettleKeeps

LEMMA HeartbeatKeeps ==
    ASSUME IInv, NEW t \in Strategies, NEW evidence \in SUBSET Positions,
           NEW refused \in SUBSET Positions, Heartbeat(t, evidence, refused)
    PROVE  IInv'
<1> DEFINE due == Due(t, evidence)
<1>1. /\ Quiet /\ Settle(t, due, "poll", refused)
      /\ \A q \in evidence : resolved[q]
      /\ UNCHANGED <<mode, replays, engine, callbacks, registered, resolved,
                     logged, restarts>>
  BY DEF Heartbeat
<1>2. due \in SUBSET (InView(t) \cup OpenRows) /\ \A q \in due : resolved[q]
  BY <1>1 DEF Due
<1>3. Fault \/ UNCHANGED faults BY DEF Heartbeat
<1>4. faults' \in 0 .. MaxFaults BY <1>3, FaultsAreBounded DEF IInv
<1> HIDE DEF due
<1> QED BY <1>1, <1>2, <1>4, SettleKeeps

(* A restart forgets keys, orders and callbacks, perhaps the Cache too, and *)
(* only ever closes rows.                                                   *)
LEMMA RestartKeeps ==
    ASSUME IInv, Restart PROVE IInv'
<1> USE PositionSets
<1>1. /\ TypeOK /\ restarts < MaxRestarts /\ restarts' = restarts + 1
      /\ exitOrder' = [p \in Traded |-> 0]
      /\ closeOrder' = [p \in Traded |-> FALSE]
      /\ callbacks' = << >>
      /\ settled' = [s \in Strategies |-> {}]
      /\ registered' = [p \in Positions |-> p \in Traded /\ ~resolved[p]]
      /\ row' = [p \in Positions |-> Reconciled(p)]
      /\ UNCHANGED <<mode, resolved, results, logged, faults>>
  BY DEF IInv, Restart
<1>2. /\ replays' \subseteq Traded
      /\ \/ UNCHANGED cache
         \/ cache' = [p \in Traded |->
                         [held |-> 0, episode |-> cache[p].episode,
                          sold |-> 0, byExit |-> FALSE]]
  BY DEF Restart
<1>3. \A p \in Traded :
        /\ cache'[p].episode = cache[p].episode
        /\ cache'[p].held = cache[p].held \/ cache'[p].held = 0
        /\ cache'[p] = cache[p] \/ cache'[p].byExit = FALSE
  BY <1>2
<1>4. \A p \in Positions :
        /\ row'[p] \in RowType
        /\ row'[p].episode = row[p].episode /\ row'[p].at = row[p].at
        /\ row'[p].rich = row[p].rich
        /\ row'[p].status = "absent" => row[p].status = "absent"
        /\ row[p].status = "absent" => row'[p].status = "absent"
        /\ row[p].status # "OPEN" => row'[p].status # "OPEN"
  <2> SUFFICES ASSUME NEW p \in Positions
               PROVE  /\ row'[p] \in RowType
                      /\ row'[p].episode = row[p].episode /\ row'[p].at = row[p].at
                      /\ row'[p].rich = row[p].rich
                      /\ row'[p].status = "absent" => row[p].status = "absent"
                      /\ row[p].status = "absent" => row'[p].status = "absent"
                      /\ row[p].status # "OPEN" => row'[p].status # "OPEN"
    OBVIOUS
  <2>1. row[p] \in RowType BY <1>1, RowTypes
  <2>2. row'[p] = ClosedRow(row[p]) \/ row'[p] = row[p] BY <1>1 DEF Reconciled
  <2> QED BY <2>1, <2>2, ClosedRowIs
<1>5. TypeOK'
  <2>1. cache' \in [Traded -> [held : 0 .. MaxHeld, episode : 0 .. MaxEpisodes,
                               sold : Nat, byExit : BOOLEAN]]
    <3>1. CASE UNCHANGED cache BY <1>1, <3>1 DEF TypeOK
    <3>2. CASE cache' = [p \in Traded |->
                            [held |-> 0, episode |-> cache[p].episode,
                             sold |-> 0, byExit |-> FALSE]]
      <4>1. \A p \in Traded : cache[p].episode \in 0 .. MaxEpisodes BY <1>1, CacheTypes
      <4> QED BY <3>2, <4>1
    <3> QED BY <1>2, <3>1, <3>2
  <2>2. row' \in [Positions -> RowType] BY <1>1, <1>4
  <2>3. restarts' \in 0 .. MaxRestarts BY <1>1 DEF TypeOK
  <2>4. callbacks' \in Seq({"fill", "position"} \X Traded) BY <1>1
  <2>5. /\ exitOrder' \in [Traded -> 0 .. MaxHeld]
        /\ closeOrder' \in [Traded -> BOOLEAN]
        /\ settled' \in [Strategies -> SUBSET Positions]
        /\ registered' \in [Positions -> BOOLEAN]
    BY <1>1 DEF TypeOK
  <2> QED BY <1>1, <1>2, <2>1, <2>2, <2>3, <2>4, <2>5 DEF TypeOK, RowType
<1>6. SettledIsDurable' BY <1>1 DEF SettledIsDurable
<1>7. EpisodesAgree'
  <2> SUFFICES ASSUME NEW p \in Traded
               PROVE  /\ cache'[p].held > 0 => cache'[p].episode > 0
                      /\ HasResult(p, "resolution") =>
                            /\ resolved[p]
                            /\ results[p]["resolution"].episode = cache'[p].episode
                      /\ HasResult(p, "exit") =>
                            /\ results[p]["exit"].episode <= cache'[p].episode
                            /\ results[p]["exit"].episode = cache'[p].episode
                                  => cache'[p].held = 0
    BY <1>1 DEF EpisodesAgree, HasResult
  <2> QED BY <1>3 DEF IInv, EpisodesAgree
<1>8. RowsFollow'
  <2> SUFFICES ASSUME NEW p \in Traded
               PROVE  /\ row'[p].episode <= cache'[p].episode
                      /\ row'[p].status = "absent" => row'[p].episode = 0
                      /\ row'[p].status # "absent" => row'[p].at >= 2 * row'[p].episode - 1
                      /\ row'[p].rich = FALSE
    BY DEF RowsFollow
  <2>1. p \in Positions OBVIOUS
  <2> QED BY <1>3, <1>4, <2>1 DEF IInv, RowsFollow
<1>9. MigratedIsPlain' BY <1>1, <1>4 DEF IInv, MigratedIsPlain
<1>10. ExitIsOver'
  <2>1. \A p : ~FillPending(p)' BY <1>1 DEF FillPending
  <2>2. \A p \in Traded : exitOrder'[p] = 0 BY <1>1
  <2>3. ASSUME NEW p \in Traded, HasResult(p, "resolution"),
               ~Exempt(results[p]["resolution"])
        PROVE  cache'[p].held > 0 \/ cache'[p].byExit = FALSE
    <3>1. cache[p].held > 0 \/ cache[p].byExit = FALSE BY <2>3 DEF IInv, ExitIsOver
    <3> QED BY <1>3, <3>1
  <2>4. UNCHANGED results BY <1>1
  <2> QED BY <2>1, <2>2, <2>3, <2>4 DEF ExitIsOver, HasResult, Exempt
<1>11. CountedOnce' BY <1>1 DEF IInv, CountedOnce, HasResult
<1>12. ShownIsClosed'
  <2> SUFFICES ASSUME NEW p \in Positions, NEW k \in Kinds,
                      HasResult(p, k), results[p][k].unshown = FALSE
               PROVE  /\ results[p][k].episode <= row'[p].episode
                      /\ results[p][k].episode = row'[p].episode
                            => row'[p].status # "OPEN"
    BY <1>1 DEF ShownIsClosed, HasResult
  <2> QED BY <1>4 DEF IInv, ShownIsClosed
<1> QED BY <1>5, <1>6, <1>7, <1>8, <1>9, <1>10, <1>11, <1>12 DEF IInv

-----------------------------------------------------------------------------
(* The theorems.                                                           *)

(* What a settled key, a result, a row and the Cache owe to each other     *)
(* holds in every reachable state.                                         *)
THEOREM SettlementInductive == Spec => []IInv
<1>1. Init => IInv BY InitIInv
<1>2. IInv /\ [Next]_vars => IInv'
  <2> SUFFICES ASSUME IInv, [Next]_vars PROVE IInv' OBVIOUS
  <2>1. CASE \E p \in Traded : \/ EntryFill(p) \/ SubmitExit(p) \/ ExitFill(p)
                               \/ ExitKilled(p) \/ CloseFill(p) \/ CloseKilled(p)
                               \/ ReplayFill(p) \/ InstrumentClose(p)
    BY <2>1, EntryFillKeeps, SubmitExitKeeps, ExitFillKeeps, ExitKilledKeeps,
       CloseFillKeeps, CloseKilledKeeps, ReplayFillKeeps, InstrumentCloseKeeps, Zenon
  <2>2. CASE \E p \in Positions : Resolve(p) BY <2>2, ResolveKeeps
  <2>3. CASE HandleFill \/ HandlePosition BY <2>3, HandleFillKeeps, HandlePositionKeeps
  <2>4. CASE \E s \in Strategies, evidence, refused \in SUBSET Positions :
                Heartbeat(s, evidence, refused)
    BY <2>4, HeartbeatKeeps, Zenon
  <2>5. CASE Restart BY <2>5, RestartKeeps
  <2>6. CASE UNCHANGED vars
    BY <2>6 DEF vars, store, engine, IInv, TypeOK, SettledIsDurable, EpisodesAgree,
                RowsFollow, MigratedIsPlain, ExitIsOver, CountedOnce, ShownIsClosed,
                HasResult, FillPending
  <2> QED BY <2>1, <2>2, <2>3, <2>4, <2>5, <2>6, Zenon DEF Next
<1> QED BY <1>1, <1>2, PTL DEF Spec

(* Every variable has its type in every reachable state.                   *)
THEOREM SettlementTypeCorrect == Spec => []TypeOK
<1>1. IInv => TypeOK BY DEF IInv
<1> QED BY <1>1, SettlementInductive, PTL

(* No strategy takes a position for settled without a result in the        *)
(* database (_settled_position_keys against report_results).               *)
THEOREM KeysAreDurable == Spec => []SettledIsDurable
<1>1. IInv => SettledIsDurable BY DEF IInv
<1> QED BY <1>1, SettlementInductive, PTL

(* An episode counts as sold and as resolved only if a poll resolved it    *)
(* over a working exit order.                                              *)
THEOREM EpisodesCountOnce == Spec => []CountedOnce
<1>1. IInv => CountedOnce BY DEF IInv
<1> QED BY <1>1, SettlementInductive, PTL

(* A row whose episode has a result is not open, unless the result came    *)
(* before the row showed the episode.                                      *)
THEOREM ReportedRowsAreClosed == Spec => []ReportedIsNotOpen
<1>1. IInv => ReportedIsNotOpen
  <2> SUFFICES ASSUME IInv, NEW p \in Positions, NEW k \in Kinds, HasResult(p, k),
                      row[p].status = "OPEN", results[p][k].episode = row[p].episode
               PROVE  results[p][k].unshown
    BY DEF ReportedIsNotOpen
  <2>1. results[p][k].unshown \in BOOLEAN BY ResultTypes DEF IInv
  <2>2. results[p][k].unshown # FALSE BY DEF IInv, ShownIsClosed
  <2> QED BY <2>1, <2>2
<1> QED BY <1>1, SettlementInductive, PTL

-----------------------------------------------------------------------------
(* The result of an exit.  Until it is on record, a fill that will record   *)
(* it is queued or may be repeated by the engine; a position whose key or   *)
(* result id is taken has, in its first episode, the result already.        *)

Reported(p) == \E k \in Kinds : HasResult(p, k)

ExitsAreKnown ==
    \A p \in Traded :
        /\ cache[p].byExit \/ FillPending(p) => cache[p].episode > 0
        /\ HasResult(p, "exit") => results[p]["exit"].episode > 0
        /\ cache[p].episode = 1 /\ cache[p].byExit /\ cache[p].held = 0 /\ faults = 0
              => Reported(p) \/ FillPending(p) \/ p \in replays

(* What a step that records nothing may do to a position of the Cache.      *)
LEMMA ExitsStayKnown ==
    ASSUME IInv, ExitsAreKnown, UNCHANGED results, faults' \in Nat,
           faults' = 0 => faults = 0,
           \A p \in Traded :
              /\ cache'[p].byExit \/ FillPending(p)' => cache'[p].episode > 0
              /\ cache'[p].episode = 1 /\ cache'[p].byExit /\ cache'[p].held = 0
                   => \/ /\ cache'[p] = cache[p]
                         /\ FillPending(p) => FillPending(p)' \/ p \in replays'
                         /\ p \in replays => FillPending(p)' \/ p \in replays'
                      \/ FillPending(p)' \/ p \in replays'
    PROVE  ExitsAreKnown'
BY DEF ExitsAreKnown, Reported, HasResult

LEMMA FaultsGrow ==
    ASSUME TypeOK, Fault \/ UNCHANGED faults
    PROVE  faults' \in Nat /\ (faults' = 0 => faults = 0)
BY DEF TypeOK, Fault

LEMMA EngineKeepsExitsKnown ==
    ASSUME IInv, ExitsAreKnown, NEW q \in Traded,
           \/ EntryFill(q) \/ SubmitExit(q) \/ ExitFill(q) \/ ExitKilled(q)
           \/ CloseFill(q) \/ CloseKilled(q) \/ ReplayFill(q)
    PROVE  ExitsAreKnown'
<1>1. TypeOK /\ faults \in Nat /\ Quiet
  BY DEF IInv, TypeOK, EntryFill, SubmitExit, ExitFill, ExitKilled, CloseFill, CloseKilled,
         ReplayFill
<1>2. \A p \in Traded : /\ cache[p].held \in Nat /\ cache[p].episode \in Nat
                        /\ cache[p].byExit \in BOOLEAN
  BY <1>1, CacheTypes
<1>3. UNCHANGED <<results, faults>>
  BY DEF EntryFill, SubmitExit, ExitFill, ExitKilled, CloseFill, CloseKilled, ReplayFill,
         engine, store
<1>4. \A p : ~FillPending(p)
  BY <1>1, QuietHasNoFill
<1>5. CASE EntryFill(q)
  <2>1. PICK n \in 1 .. MaxHeld - cache[q].held :
          cache' = [cache EXCEPT
                ![q] = [held |-> @.held + n,
                        episode |-> IF cache[q].held = 0 THEN @.episode + 1 ELSE @.episode,
                        sold |-> @.sold, byExit |-> FALSE]]
    BY <1>5 DEF EntryFill
  <2>2. cache'[q].byExit = FALSE /\ \A p \in Traded : p # q => cache'[p] = cache[p]
    BY <1>1, <2>1 DEF TypeOK
  <2>3. \A p : ~FillPending(p)'
    BY <1>5 DEF EntryFill, FillPending
  <2>4. UNCHANGED replays
    BY <1>5 DEF EntryFill
  <2>5. ASSUME NEW p \in Traded
        PROVE  /\ cache'[p].byExit \/ FillPending(p)' => cache'[p].episode > 0
               /\ cache'[p].byExit => cache'[p] = cache[p]
    BY <2>2, <2>3 DEF ExitsAreKnown
  <2> QED BY <1>1, <1>3, <1>4, <2>4, <2>5, ExitsStayKnown
<1>6. CASE CloseFill(q)
  <2>1. PICK n \in 1 .. cache[q].held :
          cache' = [cache EXCEPT
                ![q] = [held |-> @.held - n, episode |-> @.episode,
                        sold |-> @.sold, byExit |-> FALSE]]
    BY <1>6 DEF CloseFill
  <2>2. cache'[q].byExit = FALSE /\ \A p \in Traded : p # q => cache'[p] = cache[p]
    BY <1>1, <2>1 DEF TypeOK
  <2>3. \A p : ~FillPending(p)'
    BY <1>6 DEF CloseFill, FillPending
  <2>4. UNCHANGED replays
    BY <1>6 DEF CloseFill
  <2>5. ASSUME NEW p \in Traded
        PROVE  /\ cache'[p].byExit \/ FillPending(p)' => cache'[p].episode > 0
               /\ cache'[p].byExit => cache'[p] = cache[p]
    BY <2>2, <2>3 DEF ExitsAreKnown
  <2> QED BY <1>1, <1>3, <1>4, <2>4, <2>5, ExitsStayKnown
<1>7. CASE ExitFill(q)
  <2>1. PICK n \in 1 .. exitOrder[q] :
          /\ n <= cache[q].held
          /\ cache' = [cache EXCEPT
                ![q] = [held |-> @.held - n, episode |-> @.episode,
                        sold |-> @.sold + n, byExit |-> TRUE]]
    BY <1>7 DEF ExitFill
  <2>2. /\ cache'[q].episode = cache[q].episode
        /\ \A p \in Traded : p # q => cache'[p] = cache[p]
    BY <1>1, <2>1 DEF TypeOK
  <2>3. cache[q].episode > 0
    <3>1. cache[q].held > 0
      BY <1>1, <1>2, <2>1, CacheTypes
    <3> QED BY <3>1 DEF IInv, EpisodesAgree
  <2>4. callbacks' = << <<"fill", q>>, <<"position", q>> >> /\ UNCHANGED replays
    BY <1>7 DEF ExitFill
  <2>5. FillPending(q)' /\ \A p : p # q => ~FillPending(p)'
    BY <2>4 DEF FillPending
  <2>6. ASSUME NEW p \in Traded
        PROVE  /\ cache'[p].byExit \/ FillPending(p)' => cache'[p].episode > 0
               /\ FillPending(p)' \/ cache'[p] = cache[p]
    BY <2>2, <2>3, <2>5 DEF ExitsAreKnown
  <2> QED BY <1>1, <1>3, <1>4, <2>4, <2>6, ExitsStayKnown
<1>8. CASE SubmitExit(q) \/ ExitKilled(q) \/ CloseKilled(q)
  <2>1. UNCHANGED <<cache, callbacks, replays>>
    BY <1>8 DEF SubmitExit, ExitKilled, CloseKilled, engine
  <2> QED BY <1>3, <2>1 DEF ExitsAreKnown, Reported, HasResult, FillPending
<1>9. CASE ReplayFill(q)
  <2>1. /\ UNCHANGED cache /\ callbacks' = << <<"fill", q>> >> /\ cache[q].byExit
        /\ replays' = replays \ {q}
    BY <1>9 DEF ReplayFill, engine
  <2>2. FillPending(q)' /\ \A p : p # q => ~FillPending(p)'
    BY <2>1 DEF FillPending
  <2>3. ASSUME NEW p \in Traded
        PROVE  /\ cache'[p].byExit \/ FillPending(p)' => cache'[p].episode > 0
               /\ p \in replays => FillPending(p)' \/ p \in replays'
    BY <2>1, <2>2 DEF ExitsAreKnown
  <2> QED BY <1>1, <1>3, <1>4, <2>1, <2>3, ExitsStayKnown
<1> QED BY <1>5, <1>6, <1>7, <1>8, <1>9

LEMMA PoppingKeepsOthers ==
    ASSUME TypeOK, callbacks # << >>, callbacks' = Tail(callbacks), NEW p, FillPending(p)
    PROVE  FillPending(p)' \/ callbacks[1] = <<"fill", p>>
<1>1. PICK i \in DOMAIN callbacks : callbacks[i] = <<"fill", p>>
  BY DEF FillPending
<1> DEFINE q == callbacks
<1>2. q \in Seq({"fill", "position"} \X Traded) /\ q # << >> /\ i \in 1 .. Len(q)
  <2>1. callbacks \in Seq({"fill", "position"} \X Traded)
    BY DEF TypeOK
  <2> QED BY <1>1, <2>1
<1> HIDE DEF q
<1>3. CASE i = 1
  BY <1>1, <1>3
<1>4. CASE i # 1
  <2>1. i - 1 \in 1 .. Len(q) - 1
    BY <1>2, <1>4
  <2>2. i - 1 \in DOMAIN Tail(q) /\ Tail(q)[i - 1] = q[i]
    BY <1>2, <2>1
  <2> QED BY <1>1, <2>2 DEF FillPending, q
<1> QED BY <1>3, <1>4

LEMMA CallbacksKeepExitsKnown ==
    ASSUME IInv, ExitsAreKnown, HandleFill \/ HandlePosition
    PROVE  ExitsAreKnown'
<1> USE PositionSets
<1>1. /\ TypeOK /\ callbacks # << >> /\ callbacks' = Tail(callbacks)
      /\ UNCHANGED <<cache, replays>>
  BY DEF IInv, HandleFill, HandlePosition, engine
<1>2. PICK q \in Traded : q = callbacks[1][2]
  BY <1>1, PoppedFills
<1>3. \A p : FillPending(p)' => FillPending(p)
  BY <1>1, PoppedFills
<1>4. faults' \in Nat /\ (faults' = 0 => faults = 0)
  <2>1. Fault \/ UNCHANGED faults
    BY DEF HandleFill, HandlePosition
  <2> QED BY <1>1, <2>1, FaultsGrow
<1>5. CASE HandlePosition
  <2>1. callbacks[1][1] = "position" /\ UNCHANGED results
    BY <1>5 DEF HandlePosition
  <2>2. \A p : FillPending(p) => FillPending(p)'
    BY <1>1, <2>1, PoppingKeepsOthers
  <2> QED BY <1>1, <1>3, <1>4, <2>1, <2>2 DEF ExitsAreKnown, Reported, HasResult
<1>6. CASE HandleFill
  <2>1. callbacks[1][1] = "fill"
    BY <1>6 DEF HandleFill
  <2>2. FillPending(q) /\ \A p : p # q => (FillPending(p) => FillPending(p)')
    <3>0. callbacks \in Seq({"fill", "position"} \X Traded)
      BY <1>1 DEF TypeOK
    <3>1. callbacks[1] \in {"fill", "position"} \X Traded /\ 1 \in DOMAIN callbacks
      BY <1>1, <3>0
    <3>2. callbacks[1] = <<callbacks[1][1], callbacks[1][2]>>
      BY <3>1
    <3>3. callbacks[1] = <<"fill", q>>
      BY <1>2, <2>1, <3>2
    <3>4. FillPending(q)
      BY <3>1, <3>3 DEF FillPending
    <3>5. ASSUME NEW p, p # q, FillPending(p) PROVE FillPending(p)'
      <4>1. callbacks[1] # <<"fill", p>>
        BY <3>3, <3>5
      <4> QED BY <1>1, <3>5, <4>1, PoppingKeepsOthers
    <3> QED BY <3>4, <3>5
  <2>3. cache[q].episode > 0
    BY <2>2 DEF ExitsAreKnown
  <2> DEFINE new == ResultOf(q, "exit", cache[q].episode, cache[q].sold)
             old == results[q]["exit"]
  <2>4. \/ /\ UNCHANGED results
           /\ \/ q \in settled[Owner[q]] \/ cache[q].held # 0
              \/ faults' # 0 \/ HasResult(q, "exit")
        \/ /\ old = None
           /\ results' = [results EXCEPT ![q]["exit"] = new]
    <3> HIDE DEF new
    <3>1. \/ /\ ~(q \notin settled[Owner[q]] /\ cache[q].held = 0)
             /\ UNCHANGED results
          \/ Fault /\ UNCHANGED results
          \/ old # None /\ UNCHANGED results
          \/ old = None /\ results' = [results EXCEPT ![q]["exit"] = new]
      BY <1>2, <1>6, Zenon DEF HandleFill, new
    <3>2. Fault => faults' # 0
      BY <1>1 DEF Fault, TypeOK
    <3> QED BY <3>1, <3>2 DEF HasResult
  <2>5. CASE /\ UNCHANGED results
             /\ \/ q \in settled[Owner[q]] \/ cache[q].held # 0
                \/ faults' # 0 \/ HasResult(q, "exit")
    <3>0. Owner[q] \in Strategies /\ q \in Positions
      BY SettlementAssumption DEF Positions
    <3>1. cache[q].held = 0 /\ faults' = 0 => Reported(q)
      <4> SUFFICES ASSUME cache[q].held = 0, faults' = 0 PROVE Reported(q)
        OBVIOUS
      <4>1. q \in settled[Owner[q]] \/ HasResult(q, "exit")
        BY <2>5
      <4>2. "exit" \in Kinds
        BY DEF Kinds
      <4> QED BY <3>0, <4>1, <4>2 DEF IInv, SettledIsDurable, Reported
    <3> QED BY <1>1, <1>3, <1>4, <2>2, <2>5, <3>1 DEF ExitsAreKnown, Reported, HasResult
  <2>6. CASE old = None /\ results' = [results EXCEPT ![q]["exit"] = new]
    <3>1. new.episode = cache[q].episode
      BY DEF ResultOf
    <3>2. results'[q]["exit"] = new
      BY <1>1, <2>6 DEF TypeOK
    <3>3. \A p \in Traded : p # q => results'[p] = results[p]
      BY <1>1, <2>6 DEF TypeOK
    <3>4. new # None
      BY DEF ResultOf, None
    <3>5. Reported(q)'
      BY <3>2, <3>4 DEF Reported, HasResult
    <3> HIDE DEF new
    <3>6. \A p \in Traded : p # q => (Reported(p) => Reported(p)')
      BY <3>3 DEF Reported, HasResult
    <3> QED BY <1>1, <1>3, <1>4, <2>2, <2>3, <3>1, <3>2, <3>3, <3>5, <3>6
            DEF ExitsAreKnown, HasResult
  <2> QED BY <2>4, <2>5, <2>6
<1> QED BY <1>5, <1>6

(* Settling only adds results of resolutions.                               *)
LEMMA SettlingKeepsExitsKnown ==
    ASSUME IInv, ExitsAreKnown, NEW t, NEW due, NEW by, NEW refused,
           Settle(t, due, by, refused), Fault \/ UNCHANGED faults,
           UNCHANGED <<cache, callbacks, replays>>
    PROVE  ExitsAreKnown'
<1> USE PositionSets
<1> DEFINE created == Created(due \ refused)
           new(p) == SettlementOf(t, p, by)
<1>1. /\ results' = [p \in Positions |->
                      IF p \in created
                      THEN [results[p] EXCEPT !["resolution"] = new(p)]
                      ELSE results[p]]
  BY Zenon DEF Settle
<1>2. \A p \in created : ~HasResult(p, "resolution")
  BY DEF Created, HasResult
<1> HIDE DEF created, new
<1>3. \A p \in Traded : /\ results'[p]["exit"] = results[p]["exit"]
                        /\ p \notin created => results'[p] = results[p]
  <2> SUFFICES ASSUME NEW p \in Traded
               PROVE  /\ results'[p]["exit"] = results[p]["exit"]
                      /\ p \notin created => results'[p] = results[p]
    OBVIOUS
  <2>1. results[p] \in [Kinds -> Result]
    BY DEF IInv, TypeOK
  <2>2. CASE p \in created
    <3>1. results'[p] = [results[p] EXCEPT !["resolution"] = new(p)]
      BY <1>1, <2>2
    <3> QED BY <2>1, <2>2, <3>1
  <2>3. CASE p \notin created
    BY <1>1, <2>3
  <2> QED BY <2>2, <2>3
<1>4. \A p \in Traded : Reported(p) => Reported(p)'
  <2> SUFFICES ASSUME NEW p \in Traded, NEW k \in Kinds, results[p][k] # None
               PROVE  \E l \in Kinds : results'[p][l] # None
    BY DEF Reported, HasResult
  <2>1. k = "exit" \/ k = "resolution"
    BY DEF Kinds
  <2>2. k = "resolution" => p \notin created
    BY <1>2 DEF HasResult
  <2> QED BY <1>3, <2>1, <2>2
<1>5. faults' \in Nat /\ (faults' = 0 => faults = 0)
  BY FaultsGrow DEF IInv
<1> QED BY <1>3, <1>4, <1>5 DEF ExitsAreKnown, HasResult, FillPending

LEMMA RestartKeepsExitsKnown ==
    ASSUME IInv, ExitsAreKnown, Restart
    PROVE  ExitsAreKnown'
<1>1. UNCHANGED <<results, faults>> /\ callbacks' = << >> /\ faults \in Nat
  BY DEF Restart, IInv, TypeOK
<1>2. \A p : ~FillPending(p)'
  BY <1>1 DEF FillPending
<1>3. \/ /\ UNCHANGED cache
         /\ replays' = {p \in Traded : cache[p].byExit /\ cache[p].held = 0}
      \/ cache' = [p \in Traded |->
                     [held |-> 0, episode |-> cache[p].episode,
                      sold |-> 0, byExit |-> FALSE]]
  BY DEF Restart
<1>4. ASSUME NEW p \in Traded
      PROVE  /\ cache'[p].byExit => cache'[p].episode > 0
             /\ cache'[p].byExit /\ cache'[p].held = 0 => p \in replays'
  BY <1>3 DEF ExitsAreKnown
<1> QED BY <1>1, <1>2, <1>4, ExitsStayKnown

(* An exit that ended the first episode has its result, once its callbacks  *)
(* have run and the engine repeats none, if no write was refused            *)
(* (_record_completed_early_exit).                                          *)
THEOREM FirstExitsAreReported == Spec => []FirstExitIsReported
<1>1. Init => ExitsAreKnown
  BY PositionSets DEF Init, ExitsAreKnown, HasResult, FillPending
<1>2. IInv /\ ExitsAreKnown /\ [Next]_vars => ExitsAreKnown'
  <2> SUFFICES ASSUME IInv, ExitsAreKnown, [Next]_vars PROVE ExitsAreKnown'
    OBVIOUS
  <2>1. CASE \E p \in Traded : \/ EntryFill(p) \/ SubmitExit(p) \/ ExitFill(p)
                               \/ ExitKilled(p) \/ CloseFill(p) \/ CloseKilled(p)
                               \/ ReplayFill(p)
    BY <2>1, EngineKeepsExitsKnown, Zenon
  <2>2. ASSUME NEW p \in Traded, InstrumentClose(p) PROVE ExitsAreKnown'
    <3>1. \E refused : Settle(Owner[p], {p}, "close", refused)
      BY <2>2, Zenon DEF InstrumentClose
    <3>2. (Fault \/ UNCHANGED faults) /\ UNCHANGED <<cache, callbacks, replays>>
      BY <2>2 DEF InstrumentClose, engine
    <3> QED BY <3>1, <3>2, SettlingKeepsExitsKnown, Zenon
  <2>3. ASSUME NEW s \in Strategies, NEW evidence, NEW refused, Heartbeat(s, evidence, refused)
        PROVE  ExitsAreKnown'
    <3>1. Settle(s, Due(s, evidence), "poll", refused)
      BY <2>3 DEF Heartbeat
    <3>2. (Fault \/ UNCHANGED faults) /\ UNCHANGED <<cache, callbacks, replays>>
      BY <2>3 DEF Heartbeat, engine
    <3> QED BY <3>1, <3>2, SettlingKeepsExitsKnown, Zenon
  <2>4. CASE (\E p \in Positions : Resolve(p)) \/ UNCHANGED vars
    <3>1. UNCHANGED <<cache, callbacks, replays, results, faults>>
      BY <2>4 DEF Resolve, vars, engine, store
    <3> QED BY <3>1 DEF ExitsAreKnown, Reported, HasResult, FillPending
  <2>5. CASE HandleFill \/ HandlePosition
    BY <2>5, CallbacksKeepExitsKnown
  <2>6. CASE Restart
    BY <2>6, RestartKeepsExitsKnown
  <2> QED BY <2>1, <2>2, <2>3, <2>4, <2>5, <2>6, Zenon DEF Next
<1>3. IInv /\ ExitsAreKnown => FirstExitIsReported
  <2> SUFFICES ASSUME IInv, ExitsAreKnown, NEW p \in Traded,
                      Quiet, cache[p].episode = 1, cache[p].byExit, cache[p].held = 0,
                      p \notin replays, faults = 0
               PROVE  \E k \in Kinds : HasResult(p, k) /\ results[p][k].episode = 1
    BY DEF FirstExitIsReported
  <2>1. Reported(p)
    BY QuietHasNoFill DEF ExitsAreKnown
  <2>2. HasResult(p, "resolution") => results[p]["resolution"].episode = 1
    BY DEF IInv, EpisodesAgree
  <2>3. HasResult(p, "exit") => results[p]["exit"].episode = 1
    <3>1. HasResult(p, "exit") => /\ results[p]["exit"].episode <= 1
                                  /\ results[p]["exit"].episode > 0
      BY DEF IInv, EpisodesAgree, ExitsAreKnown
    <3>2. results[p]["exit"].episode \in Nat
      BY PositionSets, ResultTypes DEF IInv
    <3> QED BY <3>1, <3>2
  <2> QED BY <2>1, <2>2, <2>3 DEF Reported, Kinds
<1> QED BY <1>1, <1>2, <1>3, SettlementInductive, PTL DEF Spec

-----------------------------------------------------------------------------
(* The refinement of SettlementContract.                                    *)

(* A fill that will be handled is of an exit, and the Cache still shows it. *)
FillsAreExits == \A p \in Traded : FillPending(p) => cache[p].byExit

(* A step of the contract, or none.                                         *)
Allowed == [Contract!Next]_(Contract!vars)

LEMMA NothingIsWritten ==
    ASSUME UNCHANGED <<cache, resolved, results, settled>>
    PROVE  Allowed
BY DEF Allowed, Contract!vars, Episodes, Ended, Decided

(* The contract sees of a trade an opening, and who closed the position.    *)
LEMMA TradeIsAllowed ==
    ASSUME TypeOK, NEW q \in Traded, NEW c,
           cache' = [cache EXCEPT ![q] = c],
           UNCHANGED <<resolved, results, settled>>,
           \/ c.episode = cache[q].episode
           \/ /\ c.episode = cache[q].episode + 1 /\ c.byExit = FALSE
              /\ ~resolved[q]
    PROVE  Allowed
<1> USE PositionSets
<1>1. \A p \in Traded : cache'[p] = IF p = q THEN c ELSE cache[p]
  BY DEF TypeOK
<1>2. Episodes' = [Episodes EXCEPT ![q] = c.episode] /\ Episodes[q] = cache[q].episode
  BY <1>1 DEF Episodes
<1>3. Ended' \in {Ended \cup {q}, Ended \ {q}}
  BY <1>1 DEF Ended
<1>4. c.byExit = FALSE => Ended' = Ended \ {q}
  BY <1>1 DEF Ended
<1>5. Decided' = Decided
  BY DEF Decided
<1>6. CASE c.episode = cache[q].episode
  <2>1. Episodes' = Episodes
    BY <1>2, <1>6 DEF Episodes
  <2>2. Contract!Trade(q)
    BY <1>3, <1>5, <2>1 DEF Contract!Trade
  <2> QED BY <2>2 DEF Allowed, Contract!Next
<1>7. CASE c.episode = cache[q].episode + 1 /\ c.byExit = FALSE /\ ~resolved[q]
  <2>1. Contract!Open(q)
    BY <1>2, <1>4, <1>5, <1>7 DEF Contract!Open, Decided
  <2> QED BY <2>1 DEF Allowed, Contract!Next
<1> QED BY <1>6, <1>7

LEMMA EngineIsAllowed ==
    ASSUME IInv, NEW q \in Traded,
           \/ EntryFill(q) \/ SubmitExit(q) \/ ExitFill(q) \/ ExitKilled(q)
           \/ CloseFill(q) \/ CloseKilled(q) \/ ReplayFill(q)
    PROVE  FillsAreExits' /\ Allowed
<1>1. TypeOK /\ UNCHANGED <<resolved, results, settled>> /\ \A p : ~FillPending(p)
  BY QuietHasNoFill
  DEF IInv, EntryFill, SubmitExit, ExitFill, ExitKilled, CloseFill, CloseKilled,
      ReplayFill, engine, store
<1>2. cache[q].episode \in Nat
  BY <1>1, CacheTypes
<1>3. CASE EntryFill(q)
  <2>1. PICK n \in 1 .. MaxHeld - cache[q].held :
          cache' = [cache EXCEPT
                ![q] = [held |-> @.held + n,
                        episode |-> IF cache[q].held = 0 THEN @.episode + 1 ELSE @.episode,
                        sold |-> @.sold, byExit |-> FALSE]]
    BY <1>3 DEF EntryFill
  <2> DEFINE c == [held |-> cache[q].held + n,
                   episode |-> IF cache[q].held = 0 THEN cache[q].episode + 1
                               ELSE cache[q].episode,
                   sold |-> cache[q].sold, byExit |-> FALSE]
  <2>2. cache' = [cache EXCEPT ![q] = c]
    BY <1>1, <2>1 DEF TypeOK
  <2>3. /\ c.byExit = FALSE
        /\ c.episode = IF cache[q].held = 0 THEN cache[q].episode + 1 ELSE cache[q].episode
    OBVIOUS
  <2>4. ~resolved[q] /\ callbacks' = << <<"position", q>> >>
    BY <1>3 DEF EntryFill
  <2> HIDE DEF c
  <2>5. Allowed
    BY <1>1, <2>2, <2>3, <2>4, TradeIsAllowed
  <2>6. FillsAreExits'
    BY <2>4 DEF FillsAreExits, FillPending
  <2> QED BY <2>5, <2>6
<1>4. CASE CloseFill(q)
  <2>1. PICK n \in 1 .. cache[q].held :
          cache' = [cache EXCEPT
                ![q] = [held |-> @.held - n, episode |-> @.episode,
                        sold |-> @.sold, byExit |-> FALSE]]
    BY <1>4 DEF CloseFill
  <2> DEFINE c == [held |-> cache[q].held - n, episode |-> cache[q].episode,
                   sold |-> cache[q].sold, byExit |-> FALSE]
  <2>2. cache' = [cache EXCEPT ![q] = c] /\ c.episode = cache[q].episode
    BY <1>1, <2>1 DEF TypeOK
  <2>3. callbacks' = << <<"position", q>> >>
    BY <1>4 DEF CloseFill
  <2> HIDE DEF c
  <2>4. Allowed
    BY <1>1, <2>2, TradeIsAllowed
  <2>5. FillsAreExits'
    BY <2>3 DEF FillsAreExits, FillPending
  <2> QED BY <2>4, <2>5
<1>5. CASE ExitFill(q)
  <2>1. PICK n \in 1 .. exitOrder[q] :
          cache' = [cache EXCEPT
                ![q] = [held |-> @.held - n, episode |-> @.episode,
                        sold |-> @.sold + n, byExit |-> TRUE]]
    BY <1>5 DEF ExitFill
  <2> DEFINE c == [held |-> cache[q].held - n, episode |-> cache[q].episode,
                   sold |-> cache[q].sold + n, byExit |-> TRUE]
  <2>2. /\ cache' = [cache EXCEPT ![q] = c] /\ c.episode = cache[q].episode
        /\ c.byExit = TRUE
    BY <1>1, <2>1 DEF TypeOK
  <2>3. callbacks' = << <<"fill", q>>, <<"position", q>> >>
    BY <1>5 DEF ExitFill
  <2> HIDE DEF c
  <2>4. Allowed
    BY <1>1, <2>2, TradeIsAllowed
  <2>5. \A p : p # q => ~FillPending(p)'
    BY <2>3 DEF FillPending
  <2>6. cache'[q].byExit
    BY <1>1, <2>2 DEF TypeOK
  <2> QED BY <2>4, <2>5, <2>6 DEF FillsAreExits
<1>6. CASE SubmitExit(q) \/ ExitKilled(q) \/ CloseKilled(q)
  <2>1. UNCHANGED <<cache, callbacks>>
    BY <1>6 DEF SubmitExit, ExitKilled, CloseKilled, engine
  <2> QED BY <1>1, <2>1, NothingIsWritten DEF FillsAreExits, FillPending
<1>7. CASE ReplayFill(q)
  <2>1. UNCHANGED cache /\ callbacks' = << <<"fill", q>> >> /\ cache[q].byExit
    BY <1>7 DEF ReplayFill, engine
  <2>2. \A p : p # q => ~FillPending(p)'
    BY <2>1 DEF FillPending
  <2> QED BY <1>1, <2>1, <2>2, NothingIsWritten DEF FillsAreExits
<1> QED BY <1>3, <1>4, <1>5, <1>6, <1>7

LEMMA ResolveIsAllowed ==
    ASSUME IInv, FillsAreExits, NEW p \in Positions, Resolve(p)
    PROVE  FillsAreExits' /\ Allowed
<1>1. /\ UNCHANGED <<cache, callbacks, results, settled>>
      /\ resolved' = [resolved EXCEPT ![p] = TRUE]
  BY DEF Resolve, engine, store
<1>2. Decided' = Decided \cup {p}
  BY <1>1 DEF Decided, IInv, TypeOK
<1>3. Episodes' = Episodes /\ Ended' = Ended
  BY <1>1 DEF Episodes, Ended
<1>4. Contract!Decide(p)
  BY <1>1, <1>2, <1>3 DEF Contract!Decide
<1> QED BY <1>1, <1>4 DEF Allowed, Contract!Next, FillsAreExits, FillPending

(* The entry of an exit: the position was closed by it, and the id was free *)
(* or has the same payload.                                                 *)
LEMMA FillIsAllowed ==
    ASSUME IInv, FillsAreExits, HandleFill
    PROVE  Allowed
<1> USE PositionSets
<1> DEFINE q == callbacks[1][2]
           s == Owner[q]
           new == ResultOf(q, "exit", cache[q].episode, cache[q].sold)
           old == results[q]["exit"]
<1>1. /\ TypeOK /\ callbacks # << >> /\ callbacks' = Tail(callbacks)
      /\ callbacks[1][1] = "fill" /\ UNCHANGED <<cache, resolved>>
  BY DEF IInv, HandleFill, engine
<1>2. q \in Traded /\ q \in Positions /\ cache[q].byExit
  BY <1>1, PoppedFills DEF FillsAreExits
<1>3. s \in Strategies
  BY <1>2
<1>4. new.episode = cache[q].episode /\ new # None
  BY DEF ResultOf, None
<1>5. \/ UNCHANGED <<settled, results>>
      \/ /\ cache[q].held = 0
         /\ results' = IF old = None
                       THEN [results EXCEPT ![q]["exit"] = new] ELSE results
         /\ settled' = [settled EXCEPT ![s] = @ \cup {q}]
  <2> HIDE DEF new
  <2> QED BY Zenon DEF HandleFill, new
<1>6. CASE UNCHANGED <<settled, results>>
  BY <1>1, <1>6, NothingIsWritten
<1>7. CASE /\ cache[q].held = 0
           /\ results' = IF old = None
                         THEN [results EXCEPT ![q]["exit"] = new] ELSE results
           /\ settled' = [settled EXCEPT ![s] = @ \cup {q}]
  <2>1. q \in Ended /\ Episodes[q] = cache[q].episode
    BY <1>2, <1>7 DEF Ended, Episodes
  <2>2. Episodes' = Episodes /\ Ended' = Ended /\ Decided' = Decided
    BY <1>1 DEF Episodes, Ended, Decided
  <2> HIDE DEF q, s, new
  <2>3. DOMAIN results' = Positions
    BY <1>1, <1>7 DEF TypeOK
  <2>4. \A p \in Positions, j \in Kinds :
           results'[p][j] = IF p = q /\ j = "exit" /\ old = None THEN new
                            ELSE results[p][j]
    BY <1>1, <1>2, <1>7 DEF TypeOK
  <2>5. results'[q]["exit"] # None
    BY <1>2, <1>4, <2>4
  <2>6. Contract!Settle(s, "exit", {q})
    BY <1>4, <1>7, <2>1, <2>2, <2>3, <2>4, <2>5 DEF Contract!Settle, Contract!Due
  <2> QED BY <1>2, <1>3, <2>6 DEF Allowed, Contract!Next
<1> QED BY <1>5, <1>6, <1>7

(* The entries of a resolution, of all the positions that are settled.      *)
LEMMA SettlingIsAllowed ==
    ASSUME IInv, NEW t \in Strategies, NEW due \in SUBSET (InView(t) \cup OpenRows),
           NEW by \in {"close", "poll"}, NEW refused,
           \A p \in due : resolved[p],
           Settle(t, due, by, refused), UNCHANGED <<cache, resolved>>
    PROVE  Allowed
<1> USE PositionSets
<1> DEFINE created == Created(due \ refused)
           done == Recorded(t, due \ refused, by)
           new(p) == SettlementOf(t, p, by)
<1>1. TypeOK /\ RowsFollow /\ MigratedIsPlain
  BY DEF IInv
<1>2. due \subseteq Positions
  BY DEF InView, OpenRows
<1>3. /\ created \subseteq done /\ done \subseteq due
      /\ \A p \in created : results[p]["resolution"] = None
      /\ \A p \in done : p \in created \/ results[p]["resolution"] # None
  BY DEF Created, Recorded
<1>4. \A p \in due : new(p) # None /\ new(p).episode = Episodes[p]
  <2>1. by \in Sources
    BY DEF Sources
  <2>2. \A p \in due : SpeaksOf(p, by, SettlementOf(t, p, by))
    BY <1>1, <2>1, SettlementIs, Zenon
  <2> QED BY <1>2, <2>2 DEF SpeaksOf, Episodes
<1>5. /\ results' = [p \in Positions |->
                      IF p \in created
                      THEN [results[p] EXCEPT !["resolution"] = new(p)]
                      ELSE results[p]]
      /\ settled' = [settled EXCEPT ![t] = @ \cup done]
  BY Zenon DEF Settle
<1> HIDE DEF created, done, new
<1>6. \A p \in Positions, j \in Kinds :
         results'[p][j] = IF p \in created /\ j = "resolution" THEN new(p)
                          ELSE results[p][j]
  <2> SUFFICES ASSUME NEW p \in Positions, NEW j \in Kinds
               PROVE  results'[p][j] = IF p \in created /\ j = "resolution" THEN new(p)
                                       ELSE results[p][j]
    OBVIOUS
  <2>1. results[p] \in [Kinds -> Result]
    BY <1>1 DEF TypeOK
  <2>2. CASE p \in created
    <3>1. results'[p] = [results[p] EXCEPT !["resolution"] = new(p)]
      BY <1>5, <2>2
    <3> QED BY <2>1, <2>2, <3>1
  <2>3. CASE p \notin created
    BY <1>5, <2>3
  <2> QED BY <2>2, <2>3
<1>7. Episodes' = Episodes /\ Ended' = Ended /\ Decided' = Decided
  BY DEF Episodes, Ended, Decided
<1>8. done \subseteq Decided /\ done \in SUBSET Positions /\ DOMAIN results' = Positions
  BY <1>2, <1>3, <1>5 DEF Decided
<1>9. \A p \in done : results'[p]["resolution"] # None
  BY <1>2, <1>3, <1>4, <1>6
<1>10. Contract!Settle(t, "resolution", done)
  BY <1>3, <1>4, <1>5, <1>6, <1>7, <1>8, <1>9 DEF Contract!Settle, Contract!Due
<1> QED BY <1>8, <1>10 DEF Allowed, Contract!Next

LEMMA RestartIsAllowed ==
    ASSUME IInv, Restart
    PROVE  FillsAreExits' /\ Allowed
<1>1. /\ UNCHANGED <<resolved, results>> /\ callbacks' = << >>
      /\ settled' = [s \in Strategies |-> {}]
  BY DEF Restart
<1>2. \/ UNCHANGED cache
      \/ cache' = [p \in Traded |->
                     [held |-> 0, episode |-> cache[p].episode,
                      sold |-> 0, byExit |-> FALSE]]
  BY DEF Restart
<1>3. Episodes' = Episodes /\ Ended' \in {Ended, {}}
  BY <1>2 DEF Episodes, Ended
<1>4. Decided' = Decided
  BY <1>1 DEF Decided
<1>5. Contract!Restart
  BY <1>1, <1>3, <1>4 DEF Contract!Restart
<1>6. FillsAreExits'
  BY <1>1 DEF FillsAreExits, FillPending
<1> QED BY <1>5, <1>6 DEF Allowed, Contract!Next

LEMMA LedgerStep ==
    ASSUME IInv, FillsAreExits, [Next]_vars
    PROVE  FillsAreExits' /\ Allowed
<1>1. CASE \E p \in Traded : \/ EntryFill(p) \/ SubmitExit(p) \/ ExitFill(p)
                             \/ ExitKilled(p) \/ CloseFill(p) \/ CloseKilled(p)
                             \/ ReplayFill(p)
  BY <1>1, EngineIsAllowed, Zenon
<1>2. ASSUME NEW p \in Traded, InstrumentClose(p)
      PROVE  FillsAreExits' /\ Allowed
  <2>1. PICK refused : Settle(Owner[p], {p}, "close", refused)
    BY <1>2, Zenon DEF InstrumentClose
  <2>2. /\ resolved[p] /\ p \in InView(Owner[p]) /\ Owner[p] \in Strategies
        /\ UNCHANGED <<cache, resolved, callbacks>>
    BY <1>2 DEF InstrumentClose, engine
  <2>3. {p} \in SUBSET (InView(Owner[p]) \cup OpenRows)
    BY <2>2
  <2>4. Allowed
    BY <2>1, <2>2, <2>3, SettlingIsAllowed
  <2> QED BY <2>2, <2>4 DEF FillsAreExits, FillPending
<1>3. ASSUME NEW s \in Strategies, NEW evidence, NEW refused,
             Heartbeat(s, evidence, refused)
      PROVE  FillsAreExits' /\ Allowed
  <2> DEFINE due == Due(s, evidence)
  <2>1. /\ Settle(s, due, "poll", refused) /\ \A p \in evidence : resolved[p]
        /\ UNCHANGED <<cache, resolved, callbacks>>
    BY <1>3 DEF Heartbeat, engine
  <2>2. due \in SUBSET (InView(s) \cup OpenRows) /\ \A p \in due : resolved[p]
    BY <2>1 DEF Due
  <2> HIDE DEF due
  <2>3. Allowed
    BY <2>1, <2>2, SettlingIsAllowed
  <2> QED BY <2>1, <2>3 DEF FillsAreExits, FillPending
<1>4. CASE \E p \in Positions : Resolve(p)
  BY <1>4, ResolveIsAllowed
<1>5. CASE UNCHANGED vars
  BY <1>5, NothingIsWritten DEF vars, engine, store, FillsAreExits, FillPending
<1>6. CASE HandleFill \/ HandlePosition
  <2>1. /\ TypeOK /\ callbacks # << >> /\ callbacks' = Tail(callbacks)
        /\ UNCHANGED <<cache, resolved>>
    BY <1>6 DEF IInv, HandleFill, HandlePosition, engine
  <2>2. FillsAreExits'
    BY <2>1, PoppedFills DEF FillsAreExits
  <2>3. HandlePosition => UNCHANGED <<results, settled>>
    BY DEF HandlePosition
  <2> QED BY <1>6, <2>1, <2>2, <2>3, FillIsAllowed, NothingIsWritten
<1>7. CASE Restart
  BY <1>7, RestartIsAllowed
<1> QED BY <1>1, <1>2, <1>3, <1>4, <1>5, <1>6, <1>7, Zenon DEF Next

(* The settlement implements its contract: over any exits, resolutions,     *)
(* repeated and delayed callbacks, refused writes and restarts, a result    *)
(* that is on record stays as it is (_insert_idempotent), it is of the      *)
(* episode that an exit ended or a resolution found, and keys follow it.    *)
THEOREM SettlementRefines == Spec => LedgerIsFinal
<1>1. Init => FillsAreExits /\ Contract!Init
  <2> SUFFICES ASSUME Init PROVE FillsAreExits /\ Contract!Init
    OBVIOUS
  <2>1. FillsAreExits
    BY DEF Init, FillsAreExits, FillPending
  <2>2. Episodes = [p \in Positions |-> 0] /\ Ended = {} /\ Decided \subseteq Positions
    BY DEF Init, Episodes, Ended, Decided
  <2> QED BY <2>1, <2>2 DEF Init, Contract!Init
<1>2. IInv /\ FillsAreExits /\ [Next]_vars
         => FillsAreExits' /\ [Contract!Next]_(Contract!vars)
  BY LedgerStep DEF Allowed
<1> QED BY <1>1, <1>2, SettlementInductive, PTL DEF Spec, LedgerIsFinal, Contract!Spec

-----------------------------------------------------------------------------
(***************************************************************************)
(* The results themselves (ReportResults), for any amounts.                *)
(***************************************************************************)
CONSTANT One    \* of ReportResults: the price of a share that won
Money == INSTANCE ReportResults

\* The metadata of a position: amounts are whole numbers, texts are texts.
IsMetadata(m) ==
    /\ {m.entry, m.average, m.exit, m.positionShares, m.quantity, m.stake} \subseteq Int

\* What the runtime computes of a position is never refused by the store.
LEMMA AmountsAreSound ==
    ASSUME NEW m, IsMetadata(m), NEW shares \in Int, shares > 0, Money!EntryPrice(m) > 0
    PROVE  /\ Money!EntryPrice(m) \in Int
           /\ Money!Scale(m) \in Int /\ Money!Scale(m) > 0
           /\ Money!StakeOf(m, shares) \in Int /\ Money!StakeOf(m, shares) > 0
<1>1. /\ m.entry \in Int /\ m.average \in Int /\ m.stake \in Int /\ m.positionShares \in Int
  BY DEF IsMetadata
<1>2. Money!EntryPrice(m) \in Int
  BY <1>1 DEF Money!EntryPrice, Money!FirstPositive
<1>3. \A a, b \in Int : a > 0 /\ b > 0 => a * b \in Int /\ a * b > 0
  OBVIOUS
<1>4. CASE Money!SharesStake(m)
  <2>1. /\ Money!Scale(m) = m.positionShares /\ m.positionShares > 0 /\ m.stake > 0
        /\ Money!StakeOf(m, shares) = m.stake * shares
    BY <1>4 DEF Money!SharesStake, Money!Scale, Money!StakeOf
  <2> QED BY <1>1, <1>2, <1>3, <2>1
<1>5. CASE ~Money!SharesStake(m)
  <2>1. /\ Money!Scale(m) = 1
        /\ Money!StakeOf(m, shares) = Money!EntryPrice(m) * shares
    BY <1>5 DEF Money!Scale, Money!StakeOf
  <2> QED BY <1>2, <1>3, <2>1
<1> QED BY <1>4, <1>5

LEMMA NamesAreSound ==
    ASSUME NEW m, NEW name, NEW kind, kind # ""
    PROVE  Money!SignalOf(m, kind) # "" /\ Money!StrategyOf(m, name) # ""
BY DEF Money!SignalOf, Money!StrategyOf, Money!FirstOf

LEMMA ProductsAreSound ==
    \A a, b, c \in Int : a > 0 /\ b >= 0 /\ c > 0 => a * b * c \in Int /\ a * b * c >= 0
<1>1. \A a, b \in Int : a > 0 /\ b >= 0 => a * b \in Int /\ a * b >= 0
  OBVIOUS
<1>2. \A a, b \in Int : a >= 0 /\ b > 0 => a * b \in Int /\ a * b >= 0
  OBVIOUS
<1> QED BY <1>1, <1>2

\* The amounts of a result: what it settles for is no negative number, and its
\* profit is that less what the shares cost.
LEMMA ResultAmounts ==
    ASSUME NEW m, IsMetadata(m), Money!EntryPrice(m) > 0,
           NEW shares \in Int, shares > 0, NEW price \in Int, price >= 0,
           NEW name, NEW kind, NEW position, NEW how, NEW status,
           NEW r, r = Money!ResultOf(m, name, kind, position, shares, price, how, status)
    PROVE  /\ r.entry > 0 /\ r.shares > 0 /\ r.outcome >= 0
           /\ r.stake \in Int /\ r.stake > 0
           /\ r.settlement \in Int /\ r.settlement >= 0
           /\ r.settlement = shares * price * Money!Scale(m)
           /\ r.pnl = r.settlement - r.stake /\ r.pnl \in Int
<1>1. /\ r.entry = Money!EntryPrice(m) /\ r.shares = shares /\ r.outcome = price
      /\ r.stake = Money!StakeOf(m, shares)
      /\ r.settlement = shares * price * Money!Scale(m)
      /\ r.pnl = shares * price * Money!Scale(m) - Money!StakeOf(m, shares)
  BY DEF Money!ResultOf
<1>2. /\ Money!EntryPrice(m) \in Int /\ Money!Scale(m) \in Int /\ Money!Scale(m) > 0
      /\ Money!StakeOf(m, shares) \in Int /\ Money!StakeOf(m, shares) > 0
  BY AmountsAreSound
<1>3. /\ shares * price * Money!Scale(m) \in Int
      /\ shares * price * Money!Scale(m) >= 0
  BY <1>2, ProductsAreSound
<1> QED BY <1>1, <1>2, <1>3

\* A result of positive amounts is one that the store keeps.
LEMMA ResultParses ==
    ASSUME NEW m, IsMetadata(m), Money!Named(m), Money!EntryPrice(m) > 0,
           NEW shares \in Int, shares > 0, NEW price \in Int, price >= 0,
           NEW name, NEW kind, kind # "", NEW position, position # "",
           NEW how \in Money!ExitModes, NEW status \in Money!Statuses,
           NEW r, r = Money!ResultOf(m, name, kind, position, shares, price, how, status)
    PROVE  Money!Parses(r)
<1>1. /\ r.position = position /\ r.signal = Money!SignalOf(m, kind)
      /\ r.strategy = Money!StrategyOf(m, name) /\ r.side = m.side
      /\ r.mode = how /\ r.status = status
  BY Zenon DEF Money!ResultOf
<1>2. /\ r.entry > 0 /\ r.shares > 0 /\ r.stake > 0
      /\ r.outcome >= 0 /\ r.settlement >= 0
  BY ResultAmounts, Zenon
<1>3. r.signal # "" /\ r.strategy # ""
  BY <1>1, NamesAreSound, Zenon
<1>4. r.side \in {"UP", "DOWN"}
  BY <1>1, Zenon DEF Money!Named
<1>5. r.status \in {"WIN", "LOSS", "VOID", "SPLIT"} /\ r.mode \in Money!ExitModes \cup {"UNKNOWN"}
  BY <1>1, Zenon DEF Money!Statuses
<1> QED BY <1>1, <1>2, <1>3, <1>4, <1>5, Zenon DEF Money!Parses

\* What the runtime makes of the resolution of a market the store keeps; at
\* the price of a winning share a position that cost no more than its shares
\* can win loses nothing, and a lost one loses what it cost.
THEOREM ResolutionsAreKept ==
    ASSUME One \in Nat \ {0},
           NEW m, IsMetadata(m), NEW name, NEW outcome,
           Money!ResolutionIsKnown(m, outcome)
    PROVE  LET r == Money!Resolution(m, outcome, name)
           IN /\ Money!Parses(r)
              /\ r.status = "WIN" /\ r.stake <= One * r.shares * r.scale => r.pnl >= 0
              /\ r.status = "LOSS" => r.pnl = -r.stake
<1> DEFINE shares == Money!HeldShares(m)
           position == Money!ReportPosition(m)
           status == Money!ResolutionStatus(outcome)
           r == Money!ResultOf(m, name, "resolution", position, shares, outcome,
                               "RESOLUTION", status)
<1>1. Money!Resolution(m, outcome, name) = r
  BY DEF Money!Resolution
<1>2. /\ position # "" /\ Money!EntryPrice(m) > 0 /\ shares > 0
      /\ outcome \in 0 .. One /\ Money!Named(m)
  BY DEF Money!ResolutionIsKnown
<1>3. shares \in Int
  BY DEF IsMetadata, Money!HeldShares
<1>4. "RESOLUTION" \in Money!ExitModes /\ status \in Money!Statuses
  BY DEF Money!ExitModes, Money!Statuses, Money!ResolutionStatus
<1>5. /\ r.status = status /\ r.shares = shares /\ r.scale = Money!Scale(m)
  BY DEF Money!ResultOf
<1>6. Money!EntryPrice(m) > 0 /\ shares > 0 /\ outcome \in 0 .. One
  BY <1>2
<1>7. outcome \in Int /\ outcome >= 0 /\ Money!Scale(m) \in Int
  BY <1>3, <1>6, AmountsAreSound
<1>8. Money!Parses(r)
  <2> HIDE DEF shares, position, status
  <2>1. "resolution" # ""
    BY Zenon
  <2> QED BY <1>2, <1>3, <1>4, <1>7, <2>1, ResultParses, Zenon
<1>9. /\ r.pnl = r.settlement - r.stake /\ r.pnl \in Int /\ r.stake \in Int
      /\ r.settlement = shares * outcome * Money!Scale(m)
  <2> HIDE DEF shares, position, status
  <2>1. r.pnl = r.settlement - r.stake
    BY <1>3, <1>6, <1>7, ResultAmounts
  <2>2. r.pnl \in Int
    BY <1>3, <1>6, <1>7, ResultAmounts, Zenon
  <2>3. r.stake \in Int
    BY <1>3, <1>6, <1>7, ResultAmounts, Zenon
  <2>4. r.settlement = shares * outcome * Money!Scale(m)
    BY <1>3, <1>6, <1>7, ResultAmounts
  <2> QED BY <2>1, <2>2, <2>3, <2>4
<1> HIDE DEF r, shares, position
<1>10. ASSUME r.status = "WIN", r.stake <= One * r.shares * r.scale
       PROVE  r.pnl >= 0
  <2>1. outcome = One
    BY <1>5, <1>10 DEF Money!ResolutionStatus
  <2>2. r.settlement = One * r.shares * r.scale
    BY <2>1, <1>3, <1>5, <1>7, <1>9
  <2>3. r.settlement \in Int
    BY <1>3, <1>7, <1>9
  <2> QED BY <2>2, <2>3, <1>9, <1>10
<1>11. ASSUME r.status = "LOSS"
       PROVE  r.pnl = -r.stake
  <2>1. outcome = 0
    BY <1>5, <1>11 DEF Money!ResolutionStatus
  <2>2. r.settlement = 0
    BY <2>1, <1>3, <1>7, <1>9
  <2> QED BY <2>2, <1>9
<1> QED BY <1>1, <1>8, <1>10, <1>11

\* What the runtime makes of an exit the store keeps, and it calls it a win or
\* a loss as it earned or lost.
THEOREM EarlyExitsAreKept ==
    ASSUME NEW m, IsMetadata(m), NEW name, NEW price \in Int, NEW shares \in Int,
           Money!ExitIsKnown(m, price, shares)
    PROVE  LET r == Money!EarlyExit(m, price, shares, name)
           IN /\ Money!Parses(r)
              /\ r.status = "WIN" <=> r.pnl > 0
              /\ r.status = "LOSS" <=> r.pnl < 0
<1> DEFINE px == Money!ExitPrice(m, price)
           pnl == shares * px * Money!Scale(m) - Money!StakeOf(m, shares)
           status == Money!ExitStatus(pnl)
           how == Money!ModeOf(m.reason)
           r == Money!ResultOf(m, name, "exit", m.position, shares, px, how, status)
<1>1. Money!EarlyExit(m, price, shares, name) = r
  BY DEF Money!EarlyExit
<1>2. /\ m.position # "" /\ Money!EntryPrice(m) > 0 /\ shares > 0 /\ px > 0
      /\ Money!Named(m) /\ how # Money!None
  BY DEF Money!ExitIsKnown
<1>3. px \in Int
  BY DEF IsMetadata, Money!ExitPrice, Money!FirstPositive
<1>4. how \in Money!ExitModes /\ status \in Money!Statuses
  BY <1>2 DEF Money!ModeOf, Money!Statuses, Money!ExitStatus
<1>5. r.status = status /\ r.pnl = pnl
  BY DEF Money!ResultOf
<1>6. Money!EntryPrice(m) > 0 /\ shares > 0 /\ px > 0
  BY <1>2
<1>7. px >= 0
  BY <1>3, <1>6
<1>8. Money!Parses(r) /\ r.pnl \in Int
  <2> HIDE DEF px, status, how
  <2>1. "exit" # ""
    BY Zenon
  <2>2. Money!Parses(r)
    BY <1>2, <1>3, <1>4, <1>7, <2>1, ResultParses, Zenon
  <2>3. r.pnl \in Int
    BY <1>3, <1>6, <1>7, ResultAmounts, Zenon
  <2> QED BY <2>2, <2>3
<1>9. /\ status = "WIN" <=> pnl > 0
      /\ status = "LOSS" <=> pnl < 0
  <2>1. pnl \in Int
    BY <1>5, <1>8
  <2> HIDE DEF pnl
  <2> QED BY <2>1 DEF Money!ExitStatus
<1> QED BY <1>1, <1>5, <1>8, <1>9

\* The fills of an exit share the stake of the position among them: two of
\* them together cost what one fill of both would, and the fills of the whole
\* position cost its stake.
LEMMA ExitsShareTheStake ==
    ASSUME NEW m, IsMetadata(m), NEW some \in Int, NEW others \in Int
    PROVE  /\ Money!StakeOf(m, some) + Money!StakeOf(m, others)
                  = Money!StakeOf(m, some + others)
           /\ Money!SharesStake(m) =>
                  Money!StakeOf(m, m.positionShares) = m.stake * Money!Scale(m)
<1>1. /\ m.entry \in Int /\ m.average \in Int /\ m.stake \in Int /\ m.positionShares \in Int
  BY DEF IsMetadata
<1>2. Money!EntryPrice(m) \in Int
  BY <1>1 DEF Money!EntryPrice, Money!FirstPositive
<1>3. \A a, b, c \in Int : a * b + a * c = a * (b + c)
  OBVIOUS
<1>4. CASE Money!SharesStake(m)
  BY <1>1, <1>3, <1>4 DEF Money!StakeOf, Money!Scale
<1>5. CASE ~Money!SharesStake(m)
  BY <1>2, <1>3, <1>5 DEF Money!StakeOf
<1> QED BY <1>4, <1>5
=============================================================================
