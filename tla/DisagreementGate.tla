-------------------------- MODULE DisagreementGate --------------------------
(***************************************************************************)
(* The pure half of APP8B (app8_reliability.py): claims about one artifact *)
(* at one commit, the gate that compares those of the producer, a          *)
(* validator and a critic, and the choice of the critic's model.           *)
(*                                                                         *)
(* Abstractions.  Models are numbered in the order of their names, which   *)
(* breaks ties; the context window is left out, and so are the refs and    *)
(* the fingerprint of a claim and deterministic claims: both claims beside *)
(* the producer's are those of specialists (app8_execution.py:248).        *)
(***************************************************************************)
EXTENDS Naturals, FiniteSets

CONSTANTS ItemCount,      \* work items, each in a repository of its own
          CommitCount,    \* commits of a repository
          Models,         \* the models a host may use
          Provider,       \* the provider of each
          Preference,     \* its preference
          Critics         \* those that support a critic's task

\* "cross-project plan requires at least two work items".
ASSUME ItemCountAssumption == ItemCount \in Nat /\ ItemCount >= 2

ASSUME CommitCountAssumption == CommitCount \in Nat /\ CommitCount >= 1

ASSUME ModelsAssumption ==
    /\ Models \subseteq Nat \ {0} /\ Critics \subseteq Models
    /\ Provider \in [Models -> Nat] /\ Preference \in [Models -> Nat]

Items == 1 .. ItemCount

\* Commits in the order they were made; work items expect the first.
Commits == 1 .. CommitCount

BaseSha == 1

Verdicts == {"pass", "fail", "abstain", "review_required"}

Roles == {"implementation", "validation", "critic"}

\* Whose words a model was given: those of the work item, or its own.
Instructions == {"item", "own"}

\* What an artifact digest identifies: the record of one implementation.
Implementation == [item : Items, head : Commits, model : Models,
                   disposition : {"verified", "pending", "review_required", "failed"}]

\* saw: the commits whose files its author was shown.
Claim == [role : Roles, verdict : Verdicts, item : Items, commit : Commits,
          artifact : Implementation, model : Models, instruction : Instructions,
          saw : SUBSET Commits]

-----------------------------------------------------------------------------
\* Mutant of SameBinding: the artifact is not compared.
SameCommit(claims) == Cardinality({<<c.item, c.commit>> : c \in claims}) = 1

\* One repository, one commit, one artifact.
SameBinding(claims) ==
    Cardinality({<<c.item, c.commit, c.artifact>> : c \in claims}) = 1

\* Mutant of Independent: only another provider is asked for.
IndependentWords(producer, critic) == critic.instruction # producer.instruction

Independent(producer, critic) ==
    /\ critic.model # producer.model
    /\ critic.instruction # producer.instruction

\* The disposition of the gate; the first line that applies.
GateDisposition(producer, validator, critic) ==
    LET claims   == {producer, validator, critic}
        verdicts == {c.verdict : c \in claims}
    IN CASE "abstain" \in verdicts                   -> "abstain"
         [] /\ "abstain" \notin verdicts
            /\ \/ "review_required" \in verdicts
               \/ ~SameBinding(claims)
               \/ ~Independent(producer, critic)
               \/ Cardinality(verdicts) > 1          -> "review_required"
         [] /\ verdicts = {"pass"}
            /\ SameBinding(claims)
            /\ Independent(producer, critic)         -> "accept"
         [] OTHER                                    -> "reject"

\* evaluate raises on claims of other roles; its report is bound to what the
\* producer's claim is.
RolesFit(producer, validator, critic) ==
    /\ producer.role = "implementation"
    /\ validator.role = "validation"
    /\ critic.role = "critic"

Report == [disposition : {"accept", "reject", "review_required", "abstain"},
           item : Items, commit : Commits, artifact : Implementation,
           claims : SUBSET Claim]

Evaluate(producer, validator, critic) ==
    [disposition |-> GateDisposition(producer, validator, critic),
     item        |-> producer.item,
     commit      |-> producer.commit,
     artifact    |-> producer.artifact,
     claims      |-> {producer, validator, critic}]

-----------------------------------------------------------------------------
(* IndependentCriticSelector.                                               *)

\* Another provider first, then preference, then the name.
Above(m, n, producer) ==
    LET foreign(x) == IF Provider[x] # Provider[producer] THEN 1 ELSE 0
    IN \/ foreign(m) > foreign(n)
       \/ foreign(m) = foreign(n) /\ Preference[m] > Preference[n]
       \/ foreign(m) = foreign(n) /\ Preference[m] = Preference[n] /\ m > n

Candidates(producer) == Critics \ {producer}

\* The model chosen, none if there is no candidate (which raises).
SelectedCritics(producer) ==
    {m \in Candidates(producer) :
        \A n \in Candidates(producer) \ {m} : Above(m, n, producer)}
=============================================================================
