------------------------------ MODULE MCPortal ------------------------------
(* Portal with two of what meets: handlers, runs, reviews, scans and changes.  *)
EXTENDS Portal

SomeBirthdays == [e \in Celebrants |-> 1]

Field(type, required, bounded) == [type |-> type, required |-> required, bounded |-> bounded]
SomeSchemas ==
    {[a |-> Field("text", TRUE, FALSE), b |-> Field("number", FALSE, TRUE)],
     [a |-> Field("file", FALSE, FALSE), b |-> Field("number", TRUE, FALSE)]}
SomeData ==
    {[a |-> "right", b |-> "missing"], [a |-> "right", b |-> "beyond"],
     [a |-> "missing", b |-> "right"]}

\* Of two people, with days that cross the end of a period.
Novelty(kind, person, from, to, hours, days) ==
    [kind |-> kind, person |-> person, from |-> from, to |-> to, hours |-> hours,
     days |-> days, status |-> "PENDING", notTaken |-> FALSE]
SomeNovelties ==
    {Novelty("vacation", "ana", 1, 3, 0, 2), Novelty("illness", "eva", 2, 4, 0, 3),
     Novelty("overtime", "ana", 2, 2, 2, 0)}
SomePeriods == {<<1, 2>>, <<3, 4>>}
=============================================================================
