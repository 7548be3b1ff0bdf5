------------------------------ MODULE Endpoint ------------------------------
(***************************************************************************)
(* One request at an endpoint, handler/endpoint.go: Endpoint.produce runs  *)
(* every block in a goroutine of its own, passes their results along the   *)
(* dependencies Sequence has built, and waits for the results of the items.*)
(*                                                                         *)
(* A *Result is known by the block that made it.  The channels carry the   *)
(* pointer, so all who received it see a later change of its Err.  Every   *)
(* channel has room for its one result: sending never blocks.              *)
(***************************************************************************)
EXTENDS Sequence

CONSTANTS Outcomes  \* how a round trip may end, a subset of Outcome

(* "error": an *errors.Error; "plain": another error, a panic included. *)
Outcome == {"ok", "error", "plain"}

(* "sequence": errors.Sequence around the error; "broken": errors.Sequence  *)
(* around a nil *errors.Error, which panics when its kinds are asked for.   *)
Err == Outcome \cup {"sequence", "broken"}

ASSUME OutcomesAssumption == Outcomes \subseteq Outcome

VARIABLES
    step,     \* where the goroutine of each block is
    input,    \* how many of its input channels it has read
    seen,     \* the error it has read from the result of the last one
    sent,     \* the result in the output channels of each name; NoItem: none yet
    err,      \* Err of the result each block made
    answer    \* what produce returns: "" while it waits, else the error

serving == <<step, input, seen, sent, err, answer>>
allVars == <<vars, serving>>

ServeTypeOK ==
    /\ TypeOK
    /\ step \in [Producers -> {"idle", "drain", "fail", "produce", "done"}]
    /\ input \in [Producers -> Nat]
    /\ seen \in [Producers -> Err]
    /\ sent \in [Names -> Producers \cup {NoItem}]
    /\ err \in [Producers -> Err]
    /\ answer \in Err \cup {""}

Init ==
    /\ LoadInit
    /\ step = [n \in Producers |-> "idle"]
    /\ input = [n \in Producers |-> 0]
    /\ seen = [n \in Producers |-> "ok"]
    /\ sent = [n \in Names |-> NoItem]
    /\ err = [n \in Producers |-> "ok"]
    /\ answer = ""

-----------------------------------------------------------------------------
Go(n, to) == step' = [step EXCEPT ![n] = to]

(* passToOutputChannels and the end of the goroutine. *)
Pass(n, result) ==
    /\ sent' = [sent EXCEPT ![n] = result]
    /\ Go(n, "done")

(* The goroutine's recover: a result of its own, with a ResultPanic. *)
PassPanic(n) ==
    /\ err' = [err EXCEPT ![n] = "plain"]
    /\ Pass(n, n)

Start(n) ==
    /\ load = "loaded"
    /\ step[n] = "idle"
    /\ Go(n, "drain")
    /\ UNCHANGED <<vars, input, seen, sent, err, answer>>

(* drainInputChannels: the next channel has a result without an error. *)
DrainNext(n) ==
    /\ step[n] = "drain"
    /\ input[n] < Len(Deps(n))
    /\ LET from == sent[Deps(n)[input[n] + 1]]
       IN  /\ from # NoItem
           /\ IF err[from] = "ok"
              THEN input' = [input EXCEPT ![n] = @ + 1] /\ UNCHANGED <<step, seen>>
              ELSE /\ seen' = [seen EXCEPT ![n] = err[from]]
                   /\ Go(n, "fail")
                   /\ UNCHANGED input
    /\ UNCHANGED <<vars, sent, err, answer>>

(* Mutant of Drained: the first dependency suffices. *)
FirstDrained(n) == input[n] >= 1 \/ Deps(n) = <<>>

Drained(n) == input[n] = Len(Deps(n))

(* What becomes of the error of a dependency.  The type assertion leaves    *)
(* nil of an error of another type.                                         *)
Wrapped(e) == CASE e = "error"    -> "sequence"
                [] e = "plain"    -> "broken"
                [] e = "sequence" -> "sequence"

(* Mutant of DrainFails: the error is passed on as it is. *)
DrainUnwrapped(n) ==
    /\ step[n] = "fail"
    /\ Pass(n, sent[Deps(n)[input[n] + 1]])
    /\ UNCHANGED <<vars, input, seen, err, answer>>

(* Mutant of DrainFails: the goroutine returns without passing anything on. *)
DrainReturns(n) ==
    /\ step[n] = "fail"
    /\ Go(n, "done")
    /\ UNCHANGED <<vars, input, seen, sent, err, answer>>

(* The result is given a sequence error, unless it has one, and passed on.  *)
(* It is the result of the dependency, the others who depend on it may be   *)
(* doing the same, and no lock tells which error is seen.                   *)
DrainFails(n) ==
    /\ step[n] = "fail"
    /\ LET from == sent[Deps(n)[input[n] + 1]]
       IN  \E e \in {seen[n], err[from]} :
               IF e = "broken" THEN PassPanic(n)
               ELSE /\ err' = IF e = "sequence" THEN err
                              ELSE [err EXCEPT ![from] = Wrapped(e)]
                    /\ Pass(n, from)
    /\ UNCHANGED <<vars, input, seen, answer>>

(* rt.Produce sends the request of the block ... *)
Produce(n) ==
    /\ step[n] = "drain"
    /\ Drained(n)
    /\ Go(n, "produce")
    /\ UNCHANGED <<vars, input, seen, sent, err, answer>>

(* ... and has its result. *)
Produced(n) ==
    /\ step[n] = "produce"
    /\ \E outcome \in Outcomes : err' = [err EXCEPT ![n] = outcome]
    /\ Pass(n, n)
    /\ UNCHANGED <<vars, input, seen, answer>>

(* readResults has the results of all items, in whatever order they came;   *)
(* the error is that of any of them, the map has no order.                  *)
ReadResults ==
    /\ load = "loaded"
    /\ answer = ""
    /\ \A i \in Items : sent[i] # NoItem
    /\ LET failed == {i \in Items : err[sent[i]] # "ok"}
       IN  IF failed = {} THEN answer' = "ok"
           ELSE \E i \in failed : answer' = err[sent[i]]
    /\ UNCHANGED <<vars, step, input, seen, sent, err>>

BlockStep(n) ==
    \/ Start(n)
    \/ DrainNext(n)
    \/ DrainFails(n)
    \/ Produce(n)
    \/ Produced(n)

ServeNext == (\E n \in Producers : BlockStep(n)) \/ ReadResults

Loading == LoadNext /\ UNCHANGED serving

Next == Loading \/ ServeNext

Spec == Init /\ [][Next]_allVars

(* Goroutines are scheduled, and every round trip ends. *)
FairSpec ==
    /\ Spec
    /\ WF_allVars(Loading)
    /\ \A n \in Producers : WF_allVars(BlockStep(n))
    /\ WF_allVars(ReadResults)

-----------------------------------------------------------------------------
(* Properties. *)

(* "... they will be executed sequentially" (endpoint.md): the request of a *)
(* block is sent after the round trips of everything below it have come     *)
(* back without an error.                                                   *)
ExecutedSequentially ==
    \A n \in Producers : step[n] = "produce" =>
        \A m \in Below(n) \ {n} : sent[m] = m /\ err[m] = "ok"

(* "A request or proxy block request has been failed while depending on     *)
(* another one" (error-handling.md): the result that an item passes on from *)
(* below carries the error sequence, also when others pass the same result  *)
(* on.  An error that is not Couper's own is the exception: the sequence    *)
(* error is built around nil, and whoever looks at its kinds panics.        *)
DependentsFailAsSequence ==
    (\A n \in Producers : err[n] \notin {"plain", "broken"}) =>
        \A i \in Items :
            (sent[i] \notin {NoItem, i} /\ load = "loaded") => err[sent[i]] = "sequence"

(* A request to an endpoint that could be loaded, and refers only to blocks *)
(* it has, is answered whatever its round trips end with: no goroutine      *)
(* waits for ever, none dies without passing a result on.                   *)
EndpointAnswers == (load = "loaded") ~> (answer # "")

=============================================================================
