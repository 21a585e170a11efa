-------------------------- MODULE MCStateDatabase ---------------------------
(* Two callers; two approvals of two gates; two kinds of events; a lesson  *)
(* that is retracted later, one that is newer but of another domain, and   *)
(* one of the same day.                                                    *)
EXTENDS StateDatabase

CONSTANTS c1, c2, plan, review, k1, k2, started, ended, alpha, beta, web, data, first, second

MCCallers == {c1, c2}
MCGates == {plan, review}
MCKeys == {k1, k2}
MCEvents == {started, ended}
MCProjects == {alpha, beta}
MCTags == {web, data}
MCContents == {first, second}

Lesson(id, project, tags, status, date) ==
    [lesson_id |-> id, project_id |-> project, domain_tags |-> tags, status |-> status, date |-> date]

MCLessonRows ==
    { Lesson(1, alpha, {web}, "active", 1),
      Lesson(1, alpha, {web}, "retracted", 1),
      Lesson(2, beta, {data}, "active", 2),
      Lesson(3, beta, {web, data}, "active", 1) }

MCQueries ==
    [ project_id : {None, beta}, domain_tags : {{}, {web}}, status : {"active"}, limit : {-1, 1, 2} ]

MCSymmetry == Permutations(MCCallers) \cup Permutations(MCKeys)
=============================================================================
