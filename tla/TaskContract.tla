---------------------------- MODULE TaskContract ----------------------------
(***************************************************************************)
(* What the workflow promises of a task, whoever works on it and whatever  *)
(* fails on the way: it is coded by one agent and, when its work order     *)
(* asks for a review, signed by another; it is tried a bounded number of   *)
(* times; it ends once.  TaskWorkflow implements this specification, which *)
(* is the README's and docs' task life cycle with queue, workers, runs and *)
(* processes left out.                                                     *)
(***************************************************************************)
EXTENDS Integers

CONSTANTS Tasks, Agents, NoAgent,
          Reviewed,   \* tasks that need a second agent's signature
          MaxTries    \* tries a task has

VARIABLES stage,   \* [Tasks -> Stages]
          author,  \* [Tasks -> Agents or NoAgent]: whose work awaits a signature
          signer,  \* [Tasks -> Agents or NoAgent]: who signed it
          tries    \* [Tasks -> 0..MaxTries]: tries that have ended

vars == <<stage, author, signer, tries>>

Ends == {"accepted", "failed", "awaiting_human"}

Init ==
  /\ stage = [t \in Tasks |-> "new"]
  /\ author = [t \in Tasks |-> NoAgent]
  /\ signer = [t \in Tasks |-> NoAgent]
  /\ tries = [t \in Tasks |-> 0]

Move(t, next) == stage' = [stage EXCEPT ![t] = next]

Try(t) == tries[t] < MaxTries /\ tries' = [tries EXCEPT ![t] = @ + 1]

Submit(t) ==
  /\ stage[t] = "new"
  /\ Move(t, "todo")
  /\ UNCHANGED <<author, signer, tries>>

\* An agent's work is ready to be signed.
Code(t) ==
  /\ stage[t] = "todo" /\ t \in Reviewed
  /\ Move(t, "coded") /\ Try(t)
  /\ \E a \in Agents : author' = [author EXCEPT ![t] = a]
  /\ UNCHANGED signer

\* A try leads nowhere, or a review asks for another one.
Return(t) ==
  /\ stage[t] \in {"todo", "coded"}
  /\ Move(t, "todo") /\ Try(t)
  /\ author' = [author EXCEPT ![t] = NoAgent]
  /\ UNCHANGED signer

Accept(t) ==
  /\ Move(t, "accepted") /\ Try(t)
  /\ \/ /\ stage[t] = "coded"
        /\ \E a \in Agents \ {author[t]} : signer' = [signer EXCEPT ![t] = a]
     \/ /\ stage[t] = "todo" /\ t \notin Reviewed
        /\ UNCHANGED signer
  /\ UNCHANGED author

\* A task is given up after a try or before one.
Close(t) ==
  /\ stage[t] \in {"todo", "coded"}
  /\ \E end \in {"failed", "awaiting_human"} : Move(t, end)
  /\ Try(t) \/ UNCHANGED tries
  /\ UNCHANGED <<author, signer>>

Next == \E t \in Tasks : Submit(t) \/ Code(t) \/ Return(t) \/ Accept(t) \/ Close(t)

Spec == Init /\ [][Next]_vars
=============================================================================
