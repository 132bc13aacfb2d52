------------------------------ MODULE MCAccess ------------------------------
(***************************************************************************)
(* What lets a request pass, and what it gets: the logins of one address   *)
(* under the back-off, the reset of a password, the sessions a login leads *)
(* to, the download quota of one user - a free picture, a table and a      *)
(* video for one credit each, in any combination, on a plan with two       *)
(* credits -, archives of a release with two versions, and the jobs of a   *)
(* file of each type.  They meet only where a login is good and a download *)
(* is authorized, which each leaves open: one instance checks them side by *)
(* side, one part at a time.                                               *)
(***************************************************************************)
EXTENDS LoginBackoff, PasswordReset, Sessions, Quota, Archive, Pipeline

CONSTANTS picture, table, video, day, night, old, music, flyer

VARIABLE part

MCDelay == <<0, 1>>
MCCost == (picture :> 0) @@ (table :> 1) @@ (video :> 1)

\* The newer version has a day and a night table, which get the same name, and music.
MCShelf == ("new" :> {day, night, music}) @@ ("first" :> {old})
MCImage == [t \in {day, night, old} |-> picture]
MCKindOf ==
  [x \in {day, night, old, music, picture, flyer} |->
     CASE x \in {day, night, old} -> [type |-> "release", category |-> "table", base |-> "game"]
       [] x = music -> [type |-> "release", category |-> "archive", base |-> "music"]
       [] x = picture -> [type |-> "playfield-fs", category |-> "image", base |-> "picture"]
       [] x = flyer -> [type |-> "backglass", category |-> "image", base |-> "flyer"]]

\* A rar with music, and a table of the same name as those of the release.
MCEntries ==
  music :> {[dirs |-> <<>>, name |-> <<"track", 0>>, music |-> TRUE],
            [dirs |-> <<>>, name |-> <<"game", 0>>, music |-> FALSE],
            [dirs |-> <<"extra">>, name |-> <<"game", 1>>, music |-> FALSE]}
MCRars == {music}

\* settings.test.js:54
MCCosts ==
  LET price(category, variation) == [category |-> category, variation |-> variation] IN
  ("backglass" :> price(("video" :> 1) @@ ("image" :> 0) @@ ("directb2s" :> 1), -1))
  @@ ("playfield-fs" :> price(("video" :> 1) @@ ("image" :> 0), -1))
  @@ ("release" :> price(("table" :> 1) @@ ("*" :> 0), -1))
  @@ ("rom" :> price("*" :> 0, NoPrice))

MCBodies ==
  LET body(ids, images, extras) == [ids |-> ids, images |-> images, extras |-> extras] IN
  {body({day, night, old}, TRUE, {flyer}), body({day, old}, FALSE, {}), body({music}, TRUE, {}),
   body({old}, FALSE, {video})}

MCMayFail == {<<"release", "">>, <<"entry", old>>, <<"file", day>>}

\* The downloads are interchangeable, and so are the logins.
AccessSymmetry == Permutations(Downloads) \cup Permutations(Logins)

AccessInit ==
  /\ BackoffInit /\ ResetInit /\ SessionsInit /\ Init /\ ArchiveInit /\ PipelineInit
  /\ part \in {"backoff", "reset", "sessions", "quota", "archive", "pipeline"}
  /\ part # "backoff" => ~keep
  /\ part # "pipeline" => upload.type = "logo"
  /\ part # "sessions" => \A u \in Users : account[u].active

AccessNext ==
  /\ \/ part = "backoff" /\ BackoffStep
        /\ UNCHANGED <<resetVars, sessionVars, vars, archiveVars, pipelineVars>>
     \/ part = "reset" /\ ResetStep
        /\ UNCHANGED <<backoffVars, sessionVars, vars, archiveVars, pipelineVars>>
     \/ part = "sessions" /\ SessionsStep
        /\ UNCHANGED <<backoffVars, resetVars, vars, archiveVars, pipelineVars>>
     \/ part = "quota" /\ Next
        /\ UNCHANGED <<backoffVars, resetVars, sessionVars, archiveVars, pipelineVars>>
     \/ part = "archive" /\ ArchiveStep
        /\ UNCHANGED <<backoffVars, resetVars, sessionVars, vars, pipelineVars>>
     \/ part = "pipeline" /\ PipelineStep
        /\ UNCHANGED <<backoffVars, resetVars, sessionVars, vars, archiveVars>>
  /\ UNCHANGED part

AccessSpec ==
  AccessInit
  /\ [][AccessNext]_<<part, backoffVars, resetVars, sessionVars, vars, archiveVars, pipelineVars>>

=============================================================================
