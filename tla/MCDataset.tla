------------------------------ MODULE MCDataset ------------------------------
(* Dataset on small instances, and its refinement of ActiveFile.           *)
EXTENDS Dataset, FiniteSets

-----------------------------------------------------------------------------
(* While a procedure runs, the user's file is still as it was when the     *)
(* command started.                                                        *)
Settled == command = "none"
file == IF Settled THEN ds ELSE begun.ds

Shown(c) == [v \in {"x", "num", "lag"} |-> IF v \in DOMAIN c /\ v \in file.dict.vars THEN c[v] ELSE 0]
Show(cases) == [i \in DOMAIN cases |-> Shown(cases[i])]

Steps(chain) ==
  LET queued == SelectSeq(chain, LAMBDA t : t.kind # "mg")
  IN [i \in DOMAIN queued |-> [kind |-> queued[i].kind, n |-> queued[i].n]]

Scope(chain, dict) == [chain |-> Steps(chain), limit |-> dict.limit, filter |-> dict.filter]

Abstract == INSTANCE ActiveFile WITH
  NoData  <- NULL,
  data    <- IF file.source = NULL THEN NULL ELSE Show(file.source.cases),
  broken  <- file.source # NULL /\ file.source.fails,
  lasting <- Scope(file.permanent_trns_chain,
                   IF file.temporary THEN file.permanent_dict ELSE file.dict),
  passing <- IF file.temporary THEN Scope(file.temporary_trns_chain, file.dict) ELSE NULL,
  given   <- LET cases == IF Settled THEN delivered ELSE begun.delivered
             IN [i \in DOMAIN cases |->
                   [v \in {"x", "num", "lag"} |-> IF v \in DOMAIN cases[i] THEN cases[i][v] ELSE 0]],
  ok      <- file.ok

(* Case by case, with a deque of lagged cases, counters, two chains and a  *)
(* reader that may be abandoned, a procedure does to the active file what  *)
(* applying each transformation to the whole file would.                   *)
IsActiveFile == Abstract!Spec
=============================================================================
