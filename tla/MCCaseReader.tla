---------------------------- MODULE MCCaseReader ----------------------------
(* CaseReader on small instances, and its refinement of CaseStream.        *)
EXTENDS CaseReader, TLC

Clones == Permutations(Reader \ {First})

Held == Live \ (IF count = Idle THEN {} ELSE {count.clone})

(* A place in the sequence, from a place in the window.                    *)
Place(r) ==
  IF class[r] = "random"
    THEN source.taken - casewindow_get_n_cases(window) - min_offset + offset[r]
    ELSE source.taken

(* A read in progress has already taken its case off the limit.            *)
Limit(r) ==
  IF call.op = "read" /\ call.r = r /\ n_cases[r] # CASENUMBER_MAX
    THEN n_cases[r] + 1
    ELSE n_cases[r]

Stream == INSTANCE CaseStream WITH
  MaxCases  <- NCases,
  Unlimited <- CASENUMBER_MAX,
  length    <- source.length,
  place     <- [r \in Reader |-> IF r \in Held THEN Place(r) ELSE 0],
  limit     <- [r \in Reader |-> IF r \in Held THEN Limit(r) ELSE 0],
  held      <- Held,
  failed    <- IF Live = {} THEN tainted # {} ELSE \E r \in Live : casereader_error(r),
  reply     <- reply

(* Every reader, cloned when and from whom it may be, reads the one        *)
(* sequence in order, and an early end is never without a visible error.   *)
IsStream == Stream!Spec
=============================================================================
