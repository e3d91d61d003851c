---------------------------- MODULE Environment ----------------------------
(***************************************************************************)
(* The environment and the current directory: set, cd and register_chdir   *)
(* of builtins.c.  esh keeps PWD and OLDPWD itself: after every cd it asks *)
(* the system where it is, and takes what PWD said for where it was.       *)
(*                                                                         *)
(* The file system is a tree of directories, of which others may remove    *)
(* some.  A directory stands for its absolute path; getcwd has no answer   *)
(* in one that was removed or whose path does not fit 256 characters.      *)
(*                                                                         *)
(* As in JobControl, Bug... is a fault for the mutants of PROJECT.json.    *)
(***************************************************************************)
CONSTANTS Dir,    \* directories
          Root,   \* /
          Parent, \* Parent[d]: the directory d is in
          Deep,   \* those whose path is too long for register_chdir
          Up,     \* the name ..
          Dash,   \* the name -
          None    \* no value

ASSUME EnvironmentAssumption ==
  /\ Root \in Dir /\ Parent \in [Dir -> Dir] /\ Deep \subseteq Dir
  /\ Dir \cap {Up, Dash, None} = {} /\ Up # Dash /\ None \notin {Up, Dash}

Var   == {"PWD", "OLDPWD", "HOME"}
Name  == Dir \cup {Up, Dash}
Value == Name \cup {None}

VARIABLES env,      \* the variables cd looks at
          cwd,      \* the current directory
          exists,   \* the directories not removed
          started,  \* init_shell called register_chdir
          came,     \* history: where the shell was before cwd, if it moved
          misled,   \* history: PWD is not what register_chdir last found
          strayed   \* history: nor is OLDPWD

vars == <<env, cwd, exists, started, came, misled, strayed>>

Init ==
  /\ env \in [Var -> Value]
  /\ cwd \in Dir /\ exists = Dir
  /\ started = FALSE /\ came = None
  /\ misled = TRUE /\ strayed = TRUE

-----------------------------------------------------------------------------
(* register_chdir, in directory d.                                          *)

getcwd(d) == IF d \in exists \ Deep THEN d ELSE None

BugTooLate(d) ==
  IF getcwd(d) = None THEN env ELSE [env EXCEPT !.PWD = d, !.OLDPWD = d]
Registered(d) ==
  IF getcwd(d) = None THEN env
  ELSE [env EXCEPT !.PWD = getcwd(d),
                   !.OLDPWD = IF env.PWD = None THEN @ ELSE env.PWD]

Register(d) ==
  /\ env' = Registered(d)
  /\ misled' = (getcwd(d) = None)
  /\ strayed' = (misled \/ getcwd(d) = None)

Start ==
  /\ ~started /\ started' = TRUE
  /\ Register(cwd)
  /\ UNCHANGED <<cwd, exists, came>>

-----------------------------------------------------------------------------
(* chdir: the directory a name leads to.                                    *)
chdir(name) ==
  CASE name \in Dir -> IF name \in exists THEN name ELSE None
    [] name = Up    -> IF cwd \in exists THEN Parent[cwd] ELSE None
    [] OTHER        -> None

(* cd without an argument goes home, cd - to OLDPWD, whatever it says.      *)
Wanted(arg) == IF arg # None THEN arg ELSE IF env.HOME # None THEN env.HOME ELSE Root
Target(arg) == IF Wanted(arg) = Dash THEN env.OLDPWD ELSE Wanted(arg)

Cd(arg) ==
  /\ started
  /\ LET d == IF Target(arg) = None THEN None ELSE chdir(Target(arg))
     IN /\ d # None
        /\ cwd' = d /\ came' = cwd
        /\ Register(d)
  /\ UNCHANGED <<exists, started>>

(* There is no previous directory, or chdir fails: a message and no more.   *)
CdFails(arg) ==
  /\ started
  /\ IF Target(arg) = None THEN TRUE ELSE chdir(Target(arg)) = None
  /\ UNCHANGED vars

Set(var, value) ==
  /\ started
  /\ env' = [env EXCEPT ![var] = value]
  /\ misled'  = (misled \/ var = "PWD")
  /\ strayed' = (strayed \/ var = "OLDPWD")
  /\ UNCHANGED <<cwd, exists, started, came>>

(* Somebody removes an empty directory.                                     *)
Remove(d) ==
  /\ d \in exists \ {Root}
  /\ \A c \in exists \ {d} : Parent[c] # d
  /\ exists' = exists \ {d}
  /\ UNCHANGED <<env, cwd, started, came, misled, strayed>>

Next ==
  \/ Start
  \/ \E arg \in Value : Cd(arg) \/ CdFails(arg)
  \/ \E var \in Var, value \in Name : Set(var, value)
  \/ \E d \in Dir : Remove(d)

Spec == Init /\ [][Next]_vars

-----------------------------------------------------------------------------
(* Properties                                                               *)

(* The variables keep their types.                                          *)
TypeOK ==
  /\ env \in [Var -> Value] /\ cwd \in Dir /\ exists \subseteq Dir
  /\ started \in BOOLEAN /\ came \in Dir \cup {None}
  /\ misled \in BOOLEAN /\ strayed \in BOOLEAN

(* register_chdir: OLDPWD is where the shell was before, so cd - goes back  *)
(* there, however many cds went before or failed.  It is not when OLDPWD    *)
(* was set since, when getcwd failed at the last cd, nor when PWD was wrong *)
(* then: set, or left behind by the getcwd before.                          *)
TracksDirectory ==
  /\ ~misled => env.PWD = cwd
  /\ ~strayed /\ came # None => env.OLDPWD = came
=============================================================================
