---------------------------- MODULE MCLifecycle -----------------------------
(***************************************************************************)
(* Two names on one host.  The repositories are the shapes that matter:    *)
(*   "plain"   declares nothing: ~/.hermes-<name>, project hermes-<name>   *)
(*   "bare"    declares AGENT_HOME=~/.hermes, which is a symlink to        *)
(*             ~/.hermes-a                                                 *)
(*   "astray"  its override mounts ~/.hermes-a whoever it is registered as *)
(*   "shared"  declares an AGENT_PROJECT of its own: every name registered *)
(*             on it shares one Compose project                            *)
(* Each in the flavours the runs need: live or not, with or without a      *)
(* pre-transition hook, legacy or current.                                 *)
(***************************************************************************)
EXTENDS Lifecycle

MCNames == {"a", "b"}
MCPaths == {"home-a", "home-b", "bare"}
MCDirs == {"dir-a", "dir-b"}
MCProjects == {"hermes-a", "hermes-b", "team"}
MCDefaultHome == [n \in Names |-> IF n = "a" THEN "home-a" ELSE "home-b"]
MCDefaultProject == [n \in Names |-> IF n = "a" THEN "hermes-a" ELSE "hermes-b"]
MCBasename == [x \in MCPaths |->
                 CASE x = "home-a" -> "a"
                   [] x = "home-b" -> IF "b" \in Names THEN "b" ELSE Other
                   [] OTHER -> Bare]
MCDir == [x \in MCPaths |-> IF x = "home-b" THEN "dir-b" ELSE "dir-a"]

Plain == [home |-> "-", mount |-> "-", project |-> "-", contract |-> "legacy",
          live |-> FALSE, hook |-> FALSE]

ExclusiveDesc ==
    [r \in {"plain", "bare", "astray"} |->
        CASE r = "bare" -> [Plain EXCEPT !.home = "bare"]
          [] r = "astray" -> [Plain EXCEPT !.mount = "home-a"]
          [] OTHER -> Plain]

\* A current-contract agent.
FreshDesc == [r \in {"current"} |-> [Plain EXCEPT !.contract = "current"]]

\* Two names that share one checkout and its project, and a repository whose
\* agent is live and has a veto hook.
SharedDesc ==
    [r \in {"shared", "guarded"} |->
        IF r = "shared" THEN [Plain EXCEPT !.project = "team", !.contract = "current"]
        ELSE [Plain EXCEPT !.live = TRUE, !.hook = TRUE]]
=============================================================================
