----------------------------- MODULE Goroutines -----------------------------
(***************************************************************************)
(* The goroutines that use one synchronizer of package sync.  Modules      *)
(* Mutex, RWMutex and WaitGroup say what a goroutine does there.           *)
(***************************************************************************)
CONSTANT G    \* the goroutines

VARIABLE pc   \* where a goroutine is, among the steps of the synchronizer

At(g, l) == pc[g] = l
In(l) == {g \in G : At(g, l)}
Goto(g, l) == pc' = [pc EXCEPT ![g] = l]
=============================================================================
