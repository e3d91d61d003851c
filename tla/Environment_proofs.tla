------------------------- MODULE Environment_proofs -------------------------
(***************************************************************************)
(* For any tree of directories and any environment to start with: PWD and  *)
(* OLDPWD say where the shell is and was (module Environment).             *)
(***************************************************************************)
EXTENDS Environment, TLAPS

(* What the invariant needs beside types: nothing was registered before     *)
(* init_shell did, and a PWD that is trusted is a directory.                *)
Inv == TypeOK /\ TracksDirectory /\ (~started => misled /\ strayed /\ came = None)

-----------------------------------------------------------------------------
(* getcwd answers with the directory or not at all.                         *)
LEMMA GetcwdAnswers ==
  ASSUME NEW d \in Dir
  PROVE  getcwd(d) \in {d, None}
BY DEF getcwd

(* None is no directory.                                                    *)
LEMMA NoneIsNoDirectory == None \notin Dir
BY EnvironmentAssumption

(* chdir leads to a directory or nowhere.                                   *)
LEMMA ChdirLeadsToDirectory ==
  ASSUME TypeOK, NEW name
  PROVE  chdir(name) \in Dir \cup {None}
BY EnvironmentAssumption DEF chdir, TypeOK

(* register_chdir in the current directory keeps the types, and PWD is the  *)
(* directory unless getcwd failed.                                          *)
LEMMA RegisterTypes ==
  ASSUME TypeOK, NEW d \in Dir, Register(d)
  PROVE  /\ env' \in [Var -> Value] /\ misled' \in BOOLEAN /\ strayed' \in BOOLEAN
         /\ ~misled' => env'.PWD = d
<1>1. getcwd(d) \in Value
  BY GetcwdAnswers DEF Value, Name
<1>2. Registered(d) \in [Var -> Value]
  BY <1>1 DEF Registered, TypeOK, Var, Value
<1>3. ~misled' => getcwd(d) = d
  BY GetcwdAnswers DEF Register
<1>4. ~misled' => Registered(d).PWD = d
  BY <1>3, NoneIsNoDirectory DEF Registered, TypeOK, Var, Register
<1> QED
  BY <1>2, <1>4 DEF Register, TypeOK

(* register_chdir makes OLDPWD what PWD was, when both can be trusted.      *)
LEMMA RegisterOld ==
  ASSUME TypeOK, TracksDirectory, NEW d \in Dir, Register(d), ~strayed'
  PROVE  env'.OLDPWD = cwd
<1>1. ~misled /\ getcwd(d) # None
  BY DEF Register
<1>2. env.PWD = cwd /\ env.PWD # None
  BY <1>1, NoneIsNoDirectory DEF TracksDirectory, TypeOK
<1> QED
  BY <1>1, <1>2 DEF Register, Registered, TypeOK, Var

-----------------------------------------------------------------------------
LEMMA InitInv == Init => Inv
BY DEF Init, Inv, TypeOK, TracksDirectory

LEMMA NextInv == Inv /\ [Next]_vars => Inv'
<1> SUFFICES ASSUME Inv, [Next]_vars PROVE Inv'
  OBVIOUS
<1> USE DEF Inv
<1>1. CASE Start
  <2>1. cwd \in Dir /\ cwd' = cwd /\ Register(cwd)
    BY <1>1 DEF Start, TypeOK
  <2>2. TypeOK'
    BY <1>1, <2>1, RegisterTypes DEF Start, TypeOK
  <2>3. came' = None /\ (~misled' => env'.PWD = cwd')
    BY <1>1, <2>1, RegisterTypes DEF Start
  <2> QED
    BY <1>1, <2>2, <2>3 DEF Start, TracksDirectory
<1>2. ASSUME NEW arg \in Value, Cd(arg) PROVE Inv'
  <2>1. PICK d \in Dir : cwd' = d /\ came' = cwd /\ Register(d)
    BY <1>2, ChdirLeadsToDirectory DEF Cd
  <2>2. TypeOK'
    BY <1>2, <2>1, RegisterTypes DEF Cd, TypeOK
  <2>3. ~misled' => env'.PWD = cwd'
    BY <2>1, RegisterTypes
  <2>4. ~strayed' => env'.OLDPWD = came'
    BY <2>1, RegisterOld
  <2> QED
    BY <1>2, <2>2, <2>3, <2>4 DEF Cd, TracksDirectory
<1>3. ASSUME NEW arg \in Value, CdFails(arg) PROVE Inv'
  BY <1>3 DEF CdFails, vars, TypeOK, TracksDirectory
<1>4. ASSUME NEW var \in Var, NEW value \in Name, Set(var, value) PROVE Inv'
  <2>1. TypeOK'
    BY <1>4 DEF Set, TypeOK, Value
  <2>2. ~misled' => ~misled /\ env'.PWD = env.PWD
    BY <1>4 DEF Set, TypeOK, Var
  <2>3. ~strayed' => ~strayed /\ env'.OLDPWD = env.OLDPWD
    BY <1>4 DEF Set, TypeOK, Var
  <2> QED
    BY <1>4, <2>1, <2>2, <2>3 DEF Set, TracksDirectory
<1>5. ASSUME NEW d \in Dir, Remove(d) PROVE Inv'
  BY <1>5 DEF Remove, TypeOK, TracksDirectory
<1>6. CASE UNCHANGED vars
  BY <1>6 DEF vars, TypeOK, TracksDirectory
<1> QED
  BY <1>1, <1>2, <1>3, <1>4, <1>5, <1>6 DEF Next

-----------------------------------------------------------------------------
(* Every variable keeps its type.                                           *)
THEOREM TypeCorrect == Spec => []TypeOK
<1>1. Inv => TypeOK
  BY DEF Inv
<1> QED
  BY InitInv, NextInv, <1>1, PTL DEF Spec

(* PWD is where the shell is unless set or a failing getcwd interfered, and *)
(* OLDPWD where it was unless that happened since or at the cd before.      *)
THEOREM DirectoryTracked == Spec => []TracksDirectory
<1>1. Inv => TracksDirectory
  BY DEF Inv
<1> QED
  BY InitInv, NextInv, <1>1, PTL DEF Spec
=============================================================================
