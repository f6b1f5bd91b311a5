------------------------------- MODULE MCHris -------------------------------
\* One receipt, two executions of which one is kept, two dead letters and two
\* processes; the deployment has both workers or none.
EXTENDS HrisWorkers

MCSymmetry == Permutations(Procs)
MCReceipts == {1}
MCExecs == 1..2
MCEntries == 1..2
MCWorkerConfigs == {{}, Kinds}
MCWithWorkers == {Kinds}
=============================================================================
