---------------------------- MODULE TaskDelivery ----------------------------
(***************************************************************************)
(* What managed Git promises of a task, without how it is done: before its *)
(* commit is proven a task has terms (the sealed parent and tree) that may *)
(* still be revised; it is delivered once, by a commit that claims the     *)
(* task and meets the terms in force; and it is accepted for good, in      *)
(* commit-and-push mode only after the delivered commit was published.     *)
(***************************************************************************)
CONSTANTS Tasks, Publishing, None

VARIABLES
  offers,     \* the commits there are: [id, claim, terms]
  terms,      \* of a task, or None
  delivered,  \* the id of its commit, or None
  public,     \* ids of the commits the remote has had
  accepted    \* the tasks that are finished

vars == <<offers, terms, delivered, public, accepted>>

Init ==
  /\ terms = [t \in Tasks |-> None] /\ delivered = [t \in Tasks |-> None]
  /\ accepted = {} /\ public \subseteq {o.id : o \in offers}

Offer(o) ==
  /\ \A q \in offers : q.id # o.id
  /\ offers' = offers \cup {o}
  /\ UNCHANGED <<terms, delivered, public, accepted>>

Revise(t) ==
  /\ delivered[t] = None /\ terms'[t] # None
  /\ terms' = [terms EXCEPT ![t] = terms'[t]]
  /\ UNCHANGED <<offers, delivered, public, accepted>>

Deliver(t) ==
  /\ delivered[t] = None /\ terms[t] # None
  /\ \E o \in offers : /\ o.claim = t /\ o.terms = terms[t]
                       /\ delivered' = [delivered EXCEPT ![t] = o.id]
  /\ accepted' = IF t \in Publishing THEN accepted ELSE accepted \cup {t}
  /\ UNCHANGED <<offers, terms, public>>

Publish ==
  /\ public \subseteq public' /\ public' \subseteq {o.id : o \in offers}
  /\ UNCHANGED <<offers, terms, delivered, accepted>>

Accept(t) ==
  /\ delivered[t] # None /\ delivered[t] \in public
  /\ accepted' = accepted \cup {t}
  /\ UNCHANGED <<offers, terms, delivered, public>>

Next == \/ \E o \in offers' : Offer(o)
        \/ \E t \in Tasks : Revise(t) \/ Deliver(t) \/ Accept(t)
        \/ Publish

Spec == Init /\ [][Next]_vars
=============================================================================
