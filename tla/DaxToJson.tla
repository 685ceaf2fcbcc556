------------------------------ MODULE DaxToJson -----------------------------
(***************************************************************************)
(* dax-to-json: from the jobs and child elements of a DAX file to the      *)
(* steps of a workflow.                                                    *)
(*                                                                         *)
(* An XML id is a step name and the case it is written in; strings.ToLower *)
(* forgets the case.  The pod template, its random load and the scheduling *)
(* annotation are left out: nothing of the controller depends on them.     *)
(***************************************************************************)
EXTENDS Naturals, Sequences

\* An id of a job, or the ref of a child or a parent.
Id(names) == [name : names, case : {"lower", "upper"}]

ToLower(id) == id.name

\* A DAX file as encoding/xml hands it over: Adag with its Jobs and Childs.
IsAdag(adag, names) ==
  /\ adag.jobs \in Seq(Id(names))
  /\ adag.childs \in Seq([ref : Id(names), parents : Seq(Id(names))])

\* Of several elements with these indexes the last one counts.
LastOf(indexes) == CHOOSE i \in indexes : \A j \in indexes : j <= i

ChildsOf(adag, r) == {i \in DOMAIN adag.childs : adag.childs[i].ref = r}
JobsOf(adag, n) == {i \in DOMAIN adag.jobs : ToLower(adag.jobs[i]) = n}

\* The ids that are child.Ref of some child element.
Refs(adag) == {adag.childs[i].ref : i \in DOMAIN adag.childs}

\* mapJobsToDependencies: a later child element with the same ref replaces an
\* earlier one.
ChildMap(adag) ==
  [r \in Refs(adag) |->
     LET parents == adag.childs[LastOf(ChildsOf(adag, r))].parents
     IN  [p \in DOMAIN parents |-> ToLower(parents[p])]]

\* newStep: a job template, never an externalRef.
NewStep(dependencies) == [deps |-> dependencies, kind |-> "job"]

\* main that looks the dependencies up under the lower-case id.
StepsByLowerId(adag) ==
  [n \in {ToLower(adag.jobs[i]) : i \in DOMAIN adag.jobs} |->
     LET id == [name |-> n, case |-> "lower"]
     IN  NewStep(IF id \in Refs(adag) THEN ChildMap(adag)[id] ELSE <<>>)]

\* main: one step per id, up to case, made from the last job with it.
Steps(adag) ==
  [n \in {ToLower(adag.jobs[i]) : i \in DOMAIN adag.jobs} |->
     LET id == adag.jobs[LastOf(JobsOf(adag, n))]
     IN  NewStep(IF id \in Refs(adag) THEN ChildMap(adag)[id] ELSE <<>>)]

-----------------------------------------------------------------------------
(* What a DAX file means.                                                  *)

Parents(child) == {child.parents[p] : p \in DOMAIN child.parents}

\* Every job has an id of its own, and at most one child element.
Unambiguous(adag) ==
  /\ \A i, j \in DOMAIN adag.jobs : ToLower(adag.jobs[i]) = ToLower(adag.jobs[j]) => i = j
  /\ \A i, j \in DOMAIN adag.childs : adag.childs[i].ref = adag.childs[j].ref => i = j

\* "A child has parents, which are its dependencies.  Child.Ref maps to Job.ID"
\* (types.go:19): the parents of job, as step names.
Needs(adag, job) ==
  {ToLower(id) : id \in UNION {Parents(adag.childs[i]) : i \in ChildsOf(adag, job)}}

\* The converter keeps all jobs and all dependencies of an unambiguous file.
ConvertsFaithfully(adag) ==
  Unambiguous(adag) =>
    /\ \A i \in DOMAIN adag.jobs : ToLower(adag.jobs[i]) \in DOMAIN Steps(adag)
    /\ \A i \in DOMAIN adag.jobs :
         LET d == Steps(adag)[ToLower(adag.jobs[i])].deps
         IN  {d[j] : j \in DOMAIN d} = Needs(adag, adag.jobs[i])
=============================================================================
