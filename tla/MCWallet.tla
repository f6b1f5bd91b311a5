------------------------------ MODULE MCWallet ------------------------------
(***************************************************************************)
(* The wallet service with several jobs and no physical cards, or with     *)
(* cards and the jobs of Lone; which of the two is chosen first.           *)
(***************************************************************************)
EXTENDS Wallet

CONSTANT Lone

VARIABLE cardless

MCInit == /\ Init /\ cardless \in BOOLEAN
          /\ \A c \in Cards : cards[c].status \in IF cardless THEN {"absent"} ELSE {"absent", "available", "lost"}

MCNext == /\ Next /\ UNCHANGED cardless
          /\ IF cardless THEN UNCHANGED cardVars ELSE \A j \in Jobs \ Lone : jobs'[j] = NoJob

MCSpec == MCInit /\ [][MCNext]_<<vars, cardless>> /\ \A w \in Workers : WF_vars(Step(w) \/ Save(w))
=============================================================================
