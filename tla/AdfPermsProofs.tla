-------------------------- MODULE AdfPermsProofs ---------------------------
(* What chmod grants and withholds, for any entries, access bits and modes. *)
EXTENDS AdfPerms, TLAPS

\* Three masks in a row: what is left depends on the last permission granted,
\* and the bits of the permissions withheld after it are set.
LEMMA SetPermBits ==
  ASSUME NEW w, NEW mode
  PROVE  /\ "xu" \in mode => SetPerm(w, mode) = {}
         /\ "xu" \notin mode => "E" \in SetPerm(w, mode)
         /\ "xu" \notin mode /\ "wu" \in mode => SetPerm(w, mode) = {"E"}
         /\ "xu" \notin mode /\ "wu" \notin mode => "W" \in SetPerm(w, mode)
         /\ "xu" \notin mode /\ "wu" \notin mode /\ "ru" \in mode =>
              SetPerm(w, mode) = {"W", "E"}
         /\ mode \cap User = {} => "R" \in SetPerm(w, mode)
BY DEF SetPerm, Masked, User

\* setperm writes access bits only.
LEMMA SetPermType ==
  ASSUME NEW w \in SUBSET Bits, NEW mode
  PROVE  SetPerm(w, mode) \in SUBSET Bits
BY DEF SetPerm, Masked, Bits

\* The modes a chmod may ask for are distinct from "not asked yet".
LEMMA AskedModes ==
  ASSUME NEW mode \in SUBSET Modes
  PROVE  mode # NotAsked
BY DEF Modes, User, NotAsked

\* Every access word holds access bits only, whatever sequence of chmods has
\* rewritten it (adfimage.c:351-358).
THEOREM AccessTyped == Spec => []TypeOK
<1>1. Init => TypeOK
  BY PermsAssumption DEF Init, TypeOK, NotAsked
<1>2. TypeOK /\ [Next]_vars => TypeOK'
  <2> SUFFICES ASSUME TypeOK, [Next]_vars PROVE TypeOK'
    OBVIOUS
  <2>1. ASSUME NEW e \in Entries, Chmod(e) PROVE TypeOK'
    <3>1. PICK mode \in SUBSET User, rest \in {{}, Modes \ User} :
            /\ access' = [access EXCEPT ![e] = SetPerm(access[e], mode \cup rest)]
            /\ asked' = [asked EXCEPT ![e] = mode \cup rest]
      BY <2>1 DEF Chmod
    <3>2. SetPerm(access[e], mode \cup rest) \in SUBSET Bits
      BY SetPermType DEF TypeOK
    <3>3. mode \cup rest \in SUBSET Modes
      BY DEF Modes
    <3> QED
      BY <3>1, <3>2, <3>3 DEF TypeOK
  <2>2. CASE UNCHANGED vars
    BY <2>2 DEF TypeOK, vars
  <2> QED
    BY <2>1, <2>2 DEF Next, ChmodFails
<1> QED
  BY <1>1, <1>2, PTL DEF Spec

\* A chmod never undoes a permission it has granted itself: the three
\* statements of adfimage_setperm, run in their order, leave every permission
\* the user asked for visible in the next getattr (adfimage.c:351-358).
THEOREM NothingGrantedIsLost == Spec => []Granted
<1>1. Init => Granted
  BY DEF Init, Granted
<1>2. TypeOK /\ Granted /\ [Next]_vars => Granted'
  <2> SUFFICES ASSUME TypeOK, Granted, [Next]_vars PROVE Granted'
    OBVIOUS
  <2>1. ASSUME NEW e \in Entries, Chmod(e) PROVE Granted'
    <3>1. PICK mode \in SUBSET User, rest \in {{}, Modes \ User} :
            /\ access' = [access EXCEPT ![e] = SetPerm(access[e], mode \cup rest)]
            /\ asked' = [asked EXCEPT ![e] = mode \cup rest]
      BY <2>1 DEF Chmod
    <3> DEFINE m == mode \cup rest
    <3>2. \A i \in Entries \ {e} : access'[i] = access[i] /\ asked'[i] = asked[i]
      BY <3>1 DEF TypeOK
    <3>3. access'[e] = SetPerm(access[e], m) /\ asked'[e] = m
      BY <3>1 DEF TypeOK
    <3>4. m \cap User \subseteq FileMode(SetPerm(access[e], m))
      BY SetPermBits DEF FileMode, User
    <3>5. asked'[e] \cap User \subseteq Shown(e)'
      BY <3>3, <3>4 DEF Shown, DirMode
    <3> QED
      BY <3>2, <3>5 DEF Granted, Shown
  <2>2. CASE UNCHANGED vars
    BY <2>2 DEF Granted, Shown, vars
  <2> QED
    BY <2>1, <2>2 DEF Next, ChmodFails
<1> QED
  BY <1>1, <1>2, AccessTyped, PTL DEF Spec

\* What chmod withholds is gone from a file, unless a permission translated
\* later is granted, which clears every bit set before (adfimage.c:351-358).
THEOREM WithheldUnlessGrantedLater == Spec => []Withheld
<1>1. Init => Withheld
  BY DEF Init, Withheld, Entries
<1>2. TypeOK /\ Withheld /\ [Next]_vars => Withheld'
  <2> SUFFICES ASSUME TypeOK, Withheld, [Next]_vars PROVE Withheld'
    OBVIOUS
  <2>1. ASSUME NEW e \in Entries, Chmod(e) PROVE Withheld'
    <3>1. PICK mode \in SUBSET User, rest \in {{}, Modes \ User} :
            /\ access' = [access EXCEPT ![e] = SetPerm(access[e], mode \cup rest)]
            /\ asked' = [asked EXCEPT ![e] = mode \cup rest]
      BY <2>1 DEF Chmod
    <3> DEFINE m == mode \cup rest
               s == SetPerm(access[e], m)
    <3>2. \A i \in Entries \ {e} : access'[i] = access[i] /\ asked'[i] = asked[i]
      BY <3>1 DEF TypeOK
    <3>3. access'[e] = s /\ asked'[e] = m
      BY <3>1 DEF TypeOK
    <3>4. /\ m \cap User = {} => "ru" \notin FileMode(s)
          /\ m \cap {"wu", "xu"} = {} => "wu" \notin FileMode(s)
          /\ "xu" \notin m => "xu" \notin FileMode(s)
      BY SetPermBits DEF FileMode
    <3> QED
      BY <3>2, <3>3, <3>4, PermsAssumption DEF Withheld, Shown, Entries
  <2>2. CASE UNCHANGED vars
    BY <2>2 DEF Withheld, Shown, vars
  <2> QED
    BY <2>1, <2>2 DEF Next, ChmodFails
<1> QED
  BY <1>1, <1>2, AccessTyped, PTL DEF Spec

=============================================================================
