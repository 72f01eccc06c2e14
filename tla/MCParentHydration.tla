-------------------------- MODULE MCParentHydration ---------------------------
(***************************************************************************)
(* Pages of two items.  An issue with a full page of comments and          *)
(* relations, a pull with a thread that takes two pages and commits, an    *)
(* issue with reactions to a comment, and a pull with reviewers and issues *)
(* it closes, read in a batch with those of another.  The pull is split,   *)
(* so that either its commits change or its threads.                       *)
(***************************************************************************)
EXTENDS ParentHydration, TLC

AnIssue == [kind |-> "issue", families |-> {"comments", "relations"},
            initial |-> "comments" :> {1, 2} @@ "subIssues" :> {3, 4, 5}
                        @@ "blockedBy" :> {6} @@ "blocking" :> {},
            changing |-> {"comments", "subIssues"}]
APull == [kind |-> "pull", families |-> {"threads", "review-comments", "commits"},
          initial |-> "threads" :> {1} @@ "thread1" :> {2, 3, 4} @@ "thread2" :> {}
                      @@ "commits" :> {5},
          changing |-> {"threads", "thread1", "commits"}]
Discussed == [kind |-> "issue", families |-> {"comments", "reactions12"},
              initial |-> "comments" :> {11, 12} @@ "reactions12" :> {13, 14},
              changing |-> {"comments"}]
Requested == [kind |-> "pull", families |-> {"reviewers", "closing"},
              initial |-> "reviewers" :> {15} @@ "closing" :> {16, 17, 18}
                          @@ "closing of another" :> {19},
              changing |-> {"reviewers", "closing of another"}]
Pushed == [APull EXCEPT !.families = {"commits"}, !.changing = {"commits"}]
Reviewed == [APull EXCEPT !.families = @ \ {"commits"}, !.changing = @ \ {"commits"}]
All == {AnIssue, Pushed, Reviewed, Discussed, Requested}
PullOnly == {APull}

ThreadComments == 1 :> "thread1" @@ 6 :> "thread2"
CommentReactions == 12 :> "reactions12"
SomeFamilies == {{"relations"}, {"review-comments"}, {"commits"}, {"reactions12"},
                 {"reviewers", "closing"}}
NoRefresh == {}

=============================================================================
