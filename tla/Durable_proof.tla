--------------------------- MODULE Durable_proof -----------------------------
(***************************************************************************)
(* Proofs that what the parts of MCState save is there again: settings      *)
(* (SettingLife), and who may change them; the messages of awaystore        *)
(* (AwayStore); listeners (Listeners); and the lists that modules keep in   *)
(* their registry (ModLists), each module with an invariant of its own.     *)
(***************************************************************************)
EXTENDS MCState, FunctionTheorems, FiniteSetTheorems, SequenceTheorems,
        WellFoundedInduction, TLAPS

-----------------------------------------------------------------------------
(* Settings: what a setter may be given and leaves *)

\* Values that the code never leaves empty, or refuses elsewhere.
UserFilled == Sl!UserFlags \cup Sl!UserNumbers \cup Sl!ChanOverUser \cup {"TimestampFormat"}
OwnFilled == Sl!ChanOverUser \cup (Sl!NetworkOnly \ {"Encoding"})
UserLegal(k, v) == /\ v \in Sl!Values
                   /\ k \in UserFilled => v # "empty"
                   /\ k = "StatusPrefix" => v \notin {"empty", "bad"}
                   /\ k = "Language" => v # "bad"
OwnLegal(k, v) == /\ v \in Sl!Values
                  /\ k \in OwnFilled => v # "empty"
                  /\ k \in {"Detached", "Disabled"} => v \in {"true", "false"}
Legal(k, m) == /\ m \in Sl!Settings /\ UserLegal(k, m.user) /\ OwnLegal(k, m.own)
               /\ k = "AutoClearChanBuffer" /\ ~m.set => m.own = m.user
Prefixes == {"def", "a"}

\* A restart with these lines gives legal settings, of the value v but for what gets lost.
Gives(k, w, p, v, over) ==
  LET m == Sl!Parsed(k, w, p)
  IN  Legal(k, m) /\ (Sl!Same(Sl!Effective(k, m), v) \/ (k = "FloodRate" /\ v = "fine") \/ over)

SettingInv == /\ key \in Sl!Keys /\ deny \in BOOLEAN /\ prefix \in Prefixes
              /\ by \in {"znc", "admin", "self", "restart"}
              /\ Legal(key, mem)
              /\ file.prefix \in Prefixes /\ Gives(key, file.lines, file.prefix, inForce.value, inForce.over)
              /\ by = "restart" => mem = Sl!Parsed(key, file.lines, file.prefix)

-----------------------------------------------------------------------------
(* Settings: values and lines *)

LEMMA SettingFields ==
  ASSUME NEW m \in Sl!Settings
  PROVE  /\ m.user \in Sl!Values /\ m.own \in Sl!Values /\ m.set \in BOOLEAN
         /\ m = [user |-> m.user, own |-> m.own, set |-> m.set]
  BY DEF Sl!Settings

LEMMA SettingMade ==
  ASSUME NEW u \in Sl!Values, NEW o \in Sl!Values, NEW s \in BOOLEAN
  PROVE  [user |-> u, own |-> o, set |-> s] \in Sl!Settings
  BY DEF Sl!Settings

LEMMA SameReflexive == ASSUME NEW v PROVE Sl!Same(v, v)
  BY DEF Sl!Same

LEMMA LegalMade ==
  ASSUME NEW k, NEW u, NEW o, NEW s \in BOOLEAN, UserLegal(k, u), OwnLegal(k, o),
         k = "AutoClearChanBuffer" /\ ~s => o = u
  PROVE  Legal(k, [user |-> u, own |-> o, set |-> s])
<1>1. u \in Sl!Values /\ o \in Sl!Values  BY DEF UserLegal, OwnLegal
<1> QED  BY <1>1, SettingMade DEF Legal

\* The classes of keys.
LEMMA KeyClasses ==
  /\ \A k \in Sl!ChanKeys : k \notin Sl!NetworkKeys
  /\ \A k \in Sl!AdminOnly : /\ k \in Sl!UserKeys /\ k \notin Sl!NetworkKeys /\ k \notin Sl!ChanKeys
                             /\ k \notin Sl!Guarded /\ k \notin Sl!BufferSizes
                             /\ k \notin {"StatusPrefix", "Language", "CTCPReply", "BindHost", "RealName", "QuitMsg"}
  /\ \A k \in Sl!Guarded : /\ k \in Sl!UserKeys /\ k \notin Sl!ChanKeys /\ k \notin Sl!BufferSizes
                           /\ k \notin {"StatusPrefix", "Language", "Skin", "Allow"}
                           /\ k \notin {"TrustAllCerts", "TrustPKI"}
                           /\ k \in Sl!NetworkOverUser \/ k \notin Sl!NetworkKeys
  /\ \A k \in Sl!BufferSizes : /\ k \in Sl!UserKeys /\ k \notin Sl!NetworkKeys
                               /\ k \notin {"StatusPrefix", "Language", "CTCPReply", "BindHost", "RealName", "QuitMsg"}
BY DEF Sl!ChanKeys, Sl!NetworkKeys, Sl!UserKeys, Sl!AdminOnly, Sl!Guarded, Sl!BufferSizes, Sl!DenyFlags,
   Sl!ChanOverUser, Sl!ChanOnly, Sl!NetworkOverUser, Sl!NetworkOnly, Sl!UserFlags, Sl!UserNumbers, Sl!UserTexts
LEMMA FilledClasses ==
  /\ \A k \in Sl!ChanOverUser : k \in UserFilled /\ k \in Sl!ChanKeys /\ k \in Sl!UserKeys /\ k \notin {"Detached", "Disabled", "StatusPrefix", "Language"}
  /\ \A k \in Sl!NetworkOverUser : /\ k \notin OwnFilled /\ k \notin UserFilled /\ k \notin {"Detached", "Disabled"}
                                   /\ k \notin {"StatusPrefix", "Language"} /\ k \in Sl!UserKeys /\ k \in Sl!NetworkKeys
  /\ \A k \in Sl!NetworkKeys : k \notin Sl!ChanOverUser /\ k \notin {"Detached", "Disabled", "AutoClearChanBuffer"}
  /\ \A k \in Sl!UserKeys : k \in OwnFilled => k \in Sl!ChanOverUser
  /\ \A k \in Sl!UserKeys : k \notin {"Detached", "Disabled"}
BY DEF Sl!ChanKeys, Sl!NetworkKeys, Sl!UserKeys, Sl!ChanOverUser, Sl!ChanOnly, Sl!NetworkOverUser, Sl!NetworkOnly,
   Sl!UserFlags, Sl!UserNumbers, Sl!UserTexts, Sl!DenyFlags, UserFilled, OwnFilled

LEMMA UserStoredLegal ==
  ASSUME NEW k, NEW old, NEW v \in Sl!Values, NEW force \in BOOLEAN, UserLegal(k, old), k \in UserFilled => v # "empty"
  PROVE  UserLegal(k, Sl!UserStored(k, old, v, force))
  BY DEF Sl!UserStored, UserLegal

LEMMA UserSetFields ==
  ASSUME NEW k, NEW m \in Sl!Settings, NEW v, NEW force
  PROVE  Sl!UserSet(k, m, v, force) =
           [user |-> Sl!UserStored(k, m.user, v, force), set |-> m.set,
            own |-> IF k \in Sl!ChanOverUser /\ ~m.set THEN Sl!UserStored(k, m.user, v, force) ELSE m.own]
<1> DEFINE x == Sl!UserStored(k, m.user, v, force)
           o == IF k \in Sl!ChanOverUser /\ ~m.set THEN x ELSE m.own
<1>1. Sl!UserSet(k, m, v, force) = [m EXCEPT !.user = x, !.own = o]  BY DEF Sl!UserSet
<1> HIDE DEF x, o
<1> DEFINE y == [m EXCEPT !.user = x]
<1>2. y = [user |-> x, set |-> m.set, own |-> m.own]  BY DEF Sl!Settings
<1>3. [m EXCEPT !.user = x, !.own = o] = [y EXCEPT !.own = o]  OBVIOUS
<1> HIDE DEF y
<1>4. [y EXCEPT !.own = o] = [user |-> x, set |-> m.set, own |-> o]  BY <1>2
<1> QED  BY <1>1, <1>3, <1>4 DEF x, o

LEMMA UserSetOther ==
  ASSUME NEW k, k \notin Sl!ChanOverUser, NEW m \in Sl!Settings, NEW v, NEW force
  PROVE  Sl!UserSet(k, m, v, force) = [user |-> Sl!UserStored(k, m.user, v, force), set |-> m.set, own |-> m.own]
<1> DEFINE o == IF k \in Sl!ChanOverUser /\ ~m.set THEN Sl!UserStored(k, m.user, v, force) ELSE m.own
<1>1. Sl!UserSet(k, m, v, force) = [user |-> Sl!UserStored(k, m.user, v, force), set |-> m.set, own |-> o]
  BY UserSetFields
<1>2. o = m.own  OBVIOUS
<1> HIDE DEF o
<1> QED  BY <1>1, <1>2

LEMMA UserSetLegal ==
  ASSUME NEW k, NEW m, NEW v \in Sl!Values, NEW force \in BOOLEAN, Legal(k, m), k \in UserFilled => v # "empty"
  PROVE  Legal(k, Sl!UserSet(k, m, v, force))
<1> DEFINE x == Sl!UserStored(k, m.user, v, force)
           o == IF k \in Sl!ChanOverUser /\ ~m.set THEN x ELSE m.own
<1>1. m \in Sl!Settings /\ UserLegal(k, m.user) /\ OwnLegal(k, m.own) /\ m.set \in BOOLEAN
      /\ (k = "AutoClearChanBuffer" /\ ~m.set => m.own = m.user)
  BY SettingFields DEF Legal
<1>2. UserLegal(k, x)  BY <1>1, UserStoredLegal
<1>3. Sl!UserSet(k, m, v, force) = [user |-> x, own |-> o, set |-> m.set]  BY <1>1, UserSetFields
<1> HIDE DEF x
<1>4. k \in Sl!ChanOverUser => OwnLegal(k, x)  BY <1>2, FilledClasses DEF UserLegal, OwnLegal
<1>5. OwnLegal(k, o)  BY <1>1, <1>4
<1>6. "AutoClearChanBuffer" \in Sl!ChanOverUser  BY DEF Sl!ChanOverUser
<1>7. k = "AutoClearChanBuffer" /\ ~m.set => o = x  BY <1>6
<1> HIDE DEF o
<1> QED  BY <1>1, <1>2, <1>3, <1>5, <1>7, LegalMade

LEMMA NetworkSetFields ==
  ASSUME NEW k, NEW m \in Sl!Settings, NEW v
  PROVE  Sl!NetworkSet(k, m, v) =
           [user |-> m.user, set |-> m.set,
            own |-> IF k \in Sl!NetworkOverUser /\ Sl!Same(Sl!UserEffective(k, m.user), v) THEN "empty" ELSE v]
<1> DEFINE o == IF k \in Sl!NetworkOverUser /\ Sl!Same(Sl!UserEffective(k, m.user), v) THEN "empty" ELSE v
<1>1. Sl!NetworkSet(k, m, v) = [m EXCEPT !.own = o]  BY DEF Sl!NetworkSet
<1> HIDE DEF o
<1>2. [m EXCEPT !.own = o] = [user |-> m.user, set |-> m.set, own |-> o]  BY DEF Sl!Settings
<1> QED  BY <1>1, <1>2 DEF o

LEMMA NetworkSetLegal ==
  ASSUME NEW k \in Sl!NetworkKeys, NEW m, NEW v, Legal(k, m), OwnLegal(k, v)
  PROVE  Legal(k, Sl!NetworkSet(k, m, v))
<1> DEFINE o == IF k \in Sl!NetworkOverUser /\ Sl!Same(Sl!UserEffective(k, m.user), v) THEN "empty" ELSE v
<1>1. m \in Sl!Settings /\ UserLegal(k, m.user) /\ OwnLegal(k, m.own) /\ m.set \in BOOLEAN  BY SettingFields DEF Legal
<1>2. k \in Sl!NetworkOverUser => OwnLegal(k, "empty")  BY FilledClasses DEF OwnLegal, Sl!Values
<1>3. OwnLegal(k, o)  BY <1>2
<1>4. Sl!NetworkSet(k, m, v) = [user |-> m.user, own |-> o, set |-> m.set]  BY <1>1, NetworkSetFields
<1>5. k # "AutoClearChanBuffer"  BY FilledClasses
<1> HIDE DEF o
<1> QED  BY <1>1, <1>3, <1>4, <1>5, LegalMade

LEMMA ChanSetFields ==
  ASSUME NEW k, NEW m \in Sl!Settings, NEW v, NEW force
  PROVE  Sl!ChanSet(k, m, v, force) =
           [user |-> m.user, set |-> TRUE,
            own |-> IF k = "ChanBufferSize" THEN Sl!UserStored(k, m.own, v, force) ELSE v]
<1> DEFINE o == IF k = "ChanBufferSize" THEN Sl!UserStored(k, m.own, v, force) ELSE v
           s == TRUE
<1>1. Sl!ChanSet(k, m, v, force) = [m EXCEPT !.set = s, !.own = o]  BY DEF Sl!ChanSet
<1> HIDE DEF o, s
<1> DEFINE y == [m EXCEPT !.set = s]
<1>2. y = [user |-> m.user, set |-> s, own |-> m.own]  BY DEF Sl!Settings
<1>3. [m EXCEPT !.set = s, !.own = o] = [y EXCEPT !.own = o]  OBVIOUS
<1> HIDE DEF y
<1>4. [y EXCEPT !.own = o] = [user |-> m.user, set |-> s, own |-> o]  BY <1>2
<1> QED  BY <1>1, <1>3, <1>4 DEF o, s

LEMMA ChanStoredLegal ==
  ASSUME NEW k \in Sl!ChanOverUser, NEW old, NEW v \in Sl!Values, NEW force \in BOOLEAN, OwnLegal(k, old), v # "empty"
  PROVE  OwnLegal(k, IF k = "ChanBufferSize" THEN Sl!UserStored(k, old, v, force) ELSE v)
<1>1. k \notin {"Detached", "Disabled"}  BY FilledClasses
<1>2. Sl!UserStored(k, old, v, force) \in {old, v}  BY DEF Sl!UserStored
<1> QED  BY <1>1, <1>2 DEF OwnLegal

LEMMA ChanSetLegal ==
  ASSUME NEW k \in Sl!ChanOverUser, NEW m, NEW v \in Sl!Values, NEW force \in BOOLEAN, Legal(k, m), v # "empty"
  PROVE  Legal(k, Sl!ChanSet(k, m, v, force))
<1> DEFINE o == IF k = "ChanBufferSize" THEN Sl!UserStored(k, m.own, v, force) ELSE v
<1>1. m \in Sl!Settings /\ UserLegal(k, m.user) /\ OwnLegal(k, m.own)  BY DEF Legal
<1>2. OwnLegal(k, o)  BY <1>1, ChanStoredLegal
<1>3. Sl!ChanSet(k, m, v, force) = [user |-> m.user, own |-> o, set |-> TRUE]  BY <1>1, ChanSetFields
<1> HIDE DEF o
<1> QED  BY <1>1, <1>2, <1>3, LegalMade, Zenon

LEMMA ChanResetLegal ==
  ASSUME NEW k \in Sl!ChanOverUser, NEW m, Legal(k, m)
  PROVE  Legal(k, Sl!ChanReset(k, m))
<1> DEFINE o == IF k = "ChanBufferSize" THEN Sl!UserStored(k, m.own, m.user, FALSE) ELSE m.user
           x == Sl!ChanSet(k, m, m.user, FALSE)
<1>1. m \in Sl!Settings /\ UserLegal(k, m.user) /\ OwnLegal(k, m.own)  BY DEF Legal
<1>2. m.user \in Sl!Values /\ m.user # "empty"  BY <1>1, FilledClasses DEF UserLegal
<1>3. OwnLegal(k, o)  BY <1>1, <1>2, ChanStoredLegal, Zenon
<1>4. x = [user |-> m.user, own |-> o, set |-> TRUE]  BY <1>1, ChanSetFields, Zenon
<1>5. Sl!ChanReset(k, m) = [x EXCEPT !.set = FALSE]  BY DEF Sl!ChanReset
<1>7. k = "AutoClearChanBuffer" => o = m.user  OBVIOUS
<1> HIDE DEF o, x
<1>6. Sl!ChanReset(k, m) = [user |-> m.user, own |-> o, set |-> FALSE]  BY <1>4, <1>5, Zenon
<1> QED  BY <1>1, <1>3, <1>6, <1>7, LegalMade, Zenon
LEMMA InputFacts ==
  ASSUME NEW k \in Sl!Keys, NEW v \in Sl!Inputs(k)
  PROVE  /\ v \in Sl!Values
         /\ k \in Sl!Flags => v \in {"true", "false"}
         /\ k = "FloodRate" => v # "empty"
<1>1. v \in Sl!Values  BY DEF Sl!Inputs, Sl!Values
<1>2. k \in Sl!Flags => v \in {"true", "false"}
  <2> HAVE k \in Sl!Flags
  <2>1. Sl!Inputs(k) = {"true", "false"}  BY 
    DEF Sl!Inputs, Sl!Flags, Sl!BufferSizes, Sl!Numbers, Sl!UserFlags, Sl!UserNumbers, Sl!DenyFlags
  <2> QED  BY <2>1
<1>3. k = "FloodRate" => v # "empty"
  BY DEF Sl!Inputs, Sl!Flags, Sl!BufferSizes, Sl!Numbers, Sl!UserFlags, Sl!UserNumbers, Sl!DenyFlags
<1> QED  BY <1>1, <1>2, <1>3

LEMMA UserDefaultLegal ==
  ASSUME NEW k \in Sl!UserKeys PROVE UserLegal(k, Sl!UserDefault(k))
<1>1. Sl!UserDefault(k) \in {"true", "false", "def", "empty"}  BY DEF Sl!UserDefault
<1>2. k \in UserFilled \cup {"StatusPrefix"} => Sl!UserDefault(k) # "empty"
  BY DEF Sl!UserDefault, UserFilled, Sl!Numbers, Sl!UserFlags, Sl!ChanOverUser, Sl!DenyFlags
<1> QED  BY <1>1, <1>2 DEF UserLegal, Sl!Values

LEMMA NetworkDefaultLegal ==
  ASSUME NEW k \in Sl!Keys \ Sl!ChanOverUser PROVE OwnLegal(k, Sl!NetworkDefault(k))
<1>1. Sl!NetworkDefault(k) \in {"true", "false", "def", "empty"}  BY DEF Sl!NetworkDefault
<1>2. k \in OwnFilled => Sl!NetworkDefault(k) # "empty"
  BY DEF Sl!NetworkDefault, OwnFilled, Sl!NetworkOnly
<1>3. k \in {"Detached", "Disabled"} => Sl!NetworkDefault(k) \in {"true", "false"}
  BY DEF Sl!NetworkDefault
<1> QED  BY <1>1, <1>2, <1>3 DEF OwnLegal, Sl!Values

LEMMA AnyOwnLegal ==
  ASSUME NEW k \in Sl!NetworkOverUser, NEW v \in Sl!Values PROVE OwnLegal(k, v)
  BY FilledClasses DEF OwnLegal

LEMMA EmptyLegal ==
  /\ \A k \in Sl!Keys \ Sl!UserKeys : UserLegal(k, "empty")
  /\ \A k \in Sl!UserKeys \ Sl!ChanOverUser : OwnLegal(k, "empty")
<1>1. "empty" \in Sl!Values  BY DEF Sl!Values
<1>2. \A k \in Sl!Keys \ Sl!UserKeys : k \notin UserFilled /\ k \notin {"StatusPrefix", "Language"}
  BY DEF Sl!Keys, Sl!UserKeys, UserFilled, Sl!UserTexts, Sl!UserNumbers, Sl!UserFlags, Sl!ChanOverUser
<1>3. \A k \in Sl!UserKeys \ Sl!ChanOverUser : k \notin OwnFilled /\ k \notin {"Detached", "Disabled"}
  BY FilledClasses
<1> QED  BY <1>1, <1>2, <1>3 DEF UserLegal, OwnLegal

LEMMA KeyCover ==
  \A k \in Sl!Keys : k \in Sl!ChanOverUser \/ k \in Sl!NetworkOnly \/ k \in Sl!ChanOnly \/ k \in Sl!UserKeys \ Sl!ChanOverUser
  BY DEF Sl!Keys

LEMMA NewLegal == ASSUME NEW k \in Sl!Keys PROVE Legal(k, Sl!NewSetting(k))
<1> DEFINE u == IF k \in Sl!UserKeys THEN Sl!UserDefault(k) ELSE "empty"
           o == IF k \in Sl!ChanOverUser THEN Sl!UserDefault(k)
                ELSE IF k \in Sl!NetworkOnly \cup Sl!ChanOnly THEN Sl!NetworkDefault(k) ELSE "empty"
<1>1. Sl!NewSetting(k) = [user |-> u, own |-> o, set |-> FALSE]  BY DEF Sl!NewSetting
<1>2. UserLegal(k, u)  BY UserDefaultLegal, EmptyLegal
<1>3. k \in Sl!ChanOverUser => OwnLegal(k, Sl!UserDefault(k)) /\ k \in Sl!UserKeys
  BY FilledClasses, UserDefaultLegal DEF UserLegal, OwnLegal
<1>4. OwnLegal(k, o)  BY <1>3, NetworkDefaultLegal, EmptyLegal, KeyCover
<1>5. "AutoClearChanBuffer" \in Sl!ChanOverUser  BY DEF Sl!ChanOverUser
<1>6. k = "AutoClearChanBuffer" => o = u  BY <1>3, <1>5
<1> HIDE DEF u, o
<1> QED  BY <1>1, <1>2, <1>4, <1>6, LegalMade, Zenon

LEMMA UserEffectiveFacts ==
  ASSUME NEW k, NEW v \in Sl!Values
  PROVE  /\ Sl!UserEffective(k, v) \in Sl!Values
         /\ Sl!UserEffective(k, v) = "empty" => v = "empty"
         /\ Sl!UserEffective(k, Sl!UserEffective(k, v)) = Sl!UserEffective(k, v)
  BY DEF Sl!UserEffective, Sl!Values

LEMMA UserClonedLegal ==
  ASSUME NEW k \in Sl!UserKeys, NEW v \in Sl!Values, k \in UserFilled => v # "empty"
  PROVE  UserLegal(k, Sl!UserCloned(k, v))
<1> DEFINE x == IF k \in {"RealName", "QuitMsg"} THEN Sl!UserEffective(k, v) ELSE v
<1>1. x \in Sl!Values /\ (k \in UserFilled => x # "empty")  BY UserEffectiveFacts
<1>2. Sl!UserCloned(k, v) = Sl!UserStored(k, Sl!UserDefault(k), x, TRUE)  BY DEF Sl!UserCloned
<1> HIDE DEF x
<1> QED  BY <1>1, <1>2, UserDefaultLegal, UserStoredLegal, Zenon

LEMMA EffectiveLegal ==
  ASSUME NEW k \in Sl!NetworkKeys, NEW m, Legal(k, m)
  PROVE  OwnLegal(k, Sl!Effective(k, m))
<1>1. m \in Sl!Settings /\ OwnLegal(k, m.own)  BY DEF Legal
<1>2. CASE k \in Sl!NetworkOverUser
  <2>1. Sl!Effective(k, m) \in Sl!Values  BY <1>1, <1>2, UserEffectiveFacts, SettingFields DEF Sl!Effective
  <2> QED  BY <1>2, <2>1, AnyOwnLegal
<1>3. CASE k \notin Sl!NetworkOverUser
  BY <1>1, <1>3 DEF Sl!Effective, Sl!NetworkKeys
<1> QED  BY <1>2, <1>3

LEMMA NewNetworkLegal ==
  ASSUME NEW k \in Sl!NetworkKeys, NEW user, UserLegal(k, user)
  PROVE  Legal(k, [user |-> user, own |-> Sl!NetworkDefault(k), set |-> FALSE])
<1>1. k \in Sl!Keys \ Sl!ChanOverUser
  BY FilledClasses DEF Sl!Keys, Sl!NetworkKeys, Sl!UserKeys
<1>2. k # "AutoClearChanBuffer"  BY FilledClasses
<1> QED  BY <1>1, <1>2, NetworkDefaultLegal, LegalMade, Zenon

LEMMA NetworkClonedLegal ==
  ASSUME NEW k \in Sl!NetworkKeys, NEW m, NEW user, Legal(k, m), UserLegal(k, user)
  PROVE  Legal(k, Sl!NetworkCloned(k, m, user))
<1> DEFINE new == [user |-> user, own |-> Sl!NetworkDefault(k), set |-> FALSE]
<1>1. Legal(k, new)  BY NewNetworkLegal
<1>2. Sl!NetworkCloned(k, m, user) = IF k \in {"TrustAllCerts", "TrustPKI"} THEN new
                                      ELSE Sl!NetworkSet(k, new, Sl!Effective(k, m))
  BY DEF Sl!NetworkCloned
<1> HIDE DEF new
<1> QED  BY <1>1, <1>2, EffectiveLegal, NetworkSetLegal

LEMMA ChanClonedLegal ==
  ASSUME NEW k \in Sl!ChanKeys, NEW m, NEW user, Legal(k, m), UserLegal(k, user)
  PROVE  Legal(k, Sl!ChanCloned(k, m, user))
<1> DEFINE o == IF k = "Disabled" THEN "false" ELSE m.own
           s == k \in Sl!ChanOverUser
<1>1. OwnLegal(k, m.own)  BY DEF Legal
<1>2. "Disabled" \in Sl!ChanOnly /\ "AutoClearChanBuffer" \in Sl!ChanOverUser  BY DEF Sl!ChanOnly, Sl!ChanOverUser
<1>3. OwnLegal(k, o)  BY <1>1 DEF OwnLegal, Sl!Values
<1>4. s \in BOOLEAN /\ (k = "AutoClearChanBuffer" => s)  BY <1>2
<1>5. Sl!ChanCloned(k, m, user) = [user |-> user, own |-> o, set |-> s]  BY DEF Sl!ChanCloned
<1> HIDE DEF o, s
<1> QED  BY <1>3, <1>4, <1>5, LegalMade
LEMMA NewUserFacts ==
  ASSUME NEW k \in Sl!UserKeys, NEW m, NEW p \in Sl!Inputs(k), NEW admin \in BOOLEAN, NEW d \in BOOLEAN, Legal(k, m)
  PROVE  /\ Sl!NewUser(k, m, p, admin, d) \in Sl!Values
         /\ k \in UserFilled => Sl!NewUser(k, m, p, admin, d) # "empty"
<1> DEFINE def == Sl!UserDefault(k)
<1>0. k \in Sl!Keys  BY DEF Sl!Keys
<1>1. /\ UserLegal(k, m.user) /\ UserLegal(k, def) /\ p \in Sl!Values
      /\ k \in Sl!Flags => p # "empty"
  BY <1>0, InputFacts, UserDefaultLegal DEF Legal
<1>2. /\ m.user \in Sl!Values /\ def \in Sl!Values /\ p \in Sl!Values
      /\ k \in UserFilled => m.user # "empty" /\ def # "empty"
  BY <1>1 DEF UserLegal
<1> HIDE DEF def
<1>3. Sl!NewUserReserved(k, m, p, admin) \in {m.user, def, p}
      /\ (Sl!NewUserReserved(k, m, p, admin) = "empty" => m.user = "empty" \/ def = "empty")
  BY DEF Sl!NewUserReserved, def
<1>4. /\ Sl!UserStored(k, m.user, p, admin) \in {m.user, p} /\ Sl!UserStored(k, def, p, TRUE) \in {def, p}
  BY DEF Sl!UserStored
<1>5. Sl!UserEffective(k, m.user) \in Sl!Values /\ (Sl!UserEffective(k, m.user) = "empty" => m.user = "empty")
  BY <1>2, UserEffectiveFacts
<1>6. {"empty", "def", "a", "0"} \subseteq Sl!Values  BY DEF Sl!Values
<1>7. Sl!NewUser(k, m, p, admin, d) \in
        {Sl!NewUserReserved(k, m, p, admin), p, Sl!UserEffective(k, m.user), def, Sl!UserStored(k, m.user, p, admin),
         Sl!UserStored(k, def, p, TRUE), "empty", "def", "a", "0"}
  BY DEF Sl!NewUser, def
<1>8. Sl!NewUser(k, m, p, admin, d) \in Sl!Values  BY <1>2, <1>3, <1>4, <1>5, <1>6, <1>7, Zenon
<1>9. ASSUME k \in UserFilled PROVE Sl!NewUser(k, m, p, admin, d) # "empty"
  <2>1. k \notin {"CTCPReply", "Allow", "Language", "Skin", "Timezone"}
    BY <1>9 DEF UserFilled, Sl!UserFlags, Sl!UserNumbers, Sl!ChanOverUser, Sl!DenyFlags
  <2>2. k \notin Sl!Guarded
    BY <1>9 DEF UserFilled, Sl!UserFlags, Sl!UserNumbers, Sl!ChanOverUser, Sl!DenyFlags, Sl!Guarded
  <2>3. Sl!NewUserReserved(k, m, p, admin) # "empty"  BY <1>2, <1>3, <1>9
  <2>4. p # "empty" => Sl!UserStored(k, m.user, p, admin) # "empty" /\ Sl!UserStored(k, def, p, TRUE) # "empty"
    BY <1>2, <1>4, <1>9, Zenon
  <2>5. k \in Sl!Flags => p # "empty"  BY <1>1
  <2>6. def # "empty"  BY <1>2, <1>9
  <2> QED  BY <2>1, <2>2, <2>3, <2>4, <2>5, <2>6, Zenon DEF Sl!NewUser, def
<1> QED  BY <1>8, <1>9

LEMMA WebSetUserLegal ==
  ASSUME NEW k \in Sl!UserKeys, NEW m, NEW p \in Sl!Inputs(k), NEW admin \in BOOLEAN, NEW d \in BOOLEAN, Legal(k, m)
  PROVE  Legal(k, Sl!WebSetUser(k, m, p, admin, d))
<1> DEFINE n == Sl!NewUser(k, m, p, admin, d)
           c == Sl!UserCloned(k, n)
<1>1. UserLegal(k, c)  BY NewUserFacts, UserClonedLegal
<1>2. c \in Sl!Values /\ (k \in UserFilled => c # "empty")  BY <1>1 DEF UserLegal
<1>3. Sl!WebSetUser(k, m, p, admin, d) = Sl!UserSet(k, m, c, TRUE)  BY DEF Sl!WebSetUser
<1> HIDE DEF c
<1> QED  BY <1>2, <1>3, UserSetLegal, Zenon

LEMMA UserCommandsLegal ==
  ASSUME NEW k \in Sl!UserKeys, NEW m, NEW v \in Sl!Inputs(k), NEW admin \in BOOLEAN, NEW d \in BOOLEAN, Legal(k, m)
  PROVE  Legal(k, Sl!PanelSetUser(k, m, v, admin, d)) /\ Legal(k, Sl!CommandUser(k, m, v, d))
<1>1. v \in Sl!Values  BY InputFacts DEF Sl!Keys
<1>2. k \in {"CTCPReply", "BindHost"} => k \notin UserFilled
  BY DEF UserFilled, Sl!UserFlags, Sl!UserNumbers, Sl!ChanOverUser, Sl!DenyFlags
<1>3. Legal(k, Sl!PanelSetUser(k, m, v, admin, d))
  <2>1. CASE k = "CTCPReply"
    <3>1. Sl!PanelSetUser(k, m, v, admin, d) = m \/ Sl!PanelSetUser(k, m, v, admin, d) = Sl!UserSet(k, m, v, admin)
      BY <2>1 DEF Sl!PanelSetUser, Sl!PanelCTCP
    <3> QED  BY <1>1, <1>2, <2>1, <3>1, UserSetLegal
  <2>2. CASE k # "CTCPReply"
    <3>1. Sl!PanelSetUser(k, m, v, admin, d) = m
          \/ (v # "empty" /\ Sl!PanelSetUser(k, m, v, admin, d) = Sl!UserSet(k, m, v, admin))
      BY <2>2 DEF Sl!PanelSetUser, Sl!PanelRefuses
    <3> QED  BY <1>1, <3>1, UserSetLegal
  <2> QED  BY <2>1, <2>2
<1>4. Legal(k, Sl!CommandUser(k, m, v, d))
  <2>1. Sl!CommandUser(k, m, v, d) = m
        \/ (k = "BindHost" /\ Sl!CommandUser(k, m, v, d) = Sl!UserSet(k, m, v, FALSE))
    BY Zenon DEF Sl!CommandUser
  <2> QED  BY <1>1, <1>2, <2>1, UserSetLegal, Zenon
<1> QED  BY <1>3, <1>4

LEMMA NetworkCommandsLegal ==
  ASSUME NEW k \in Sl!NetworkKeys, NEW m, NEW v \in Sl!Inputs(k), NEW admin \in BOOLEAN, NEW d \in BOOLEAN,
         NEW r \in BOOLEAN, Legal(k, m)
  PROVE  /\ Legal(k, Sl!PanelSetNetwork(k, m, v, admin, d)) /\ Legal(k, Sl!CommandNetwork(k, m, v, d))
         /\ Legal(k, Sl!WebSetNetwork(k, m, v, admin, d, r))
<1>0. k \in Sl!Keys  BY DEF Sl!Keys, Sl!NetworkKeys, Sl!UserKeys
<1>1. v \in Sl!Values /\ (k \in Sl!Flags => v # "empty") /\ (k = "FloodRate" => v # "empty")  BY <1>0, InputFacts
<1>2. k \notin {"Detached", "Disabled"}  BY FilledClasses
<1>3. \A x \in Sl!Values : x # "empty" => OwnLegal(k, x)  BY <1>2 DEF OwnLegal
<1>4. k \in {"BindHost", "IRCConnectEnabled"} => OwnLegal(k, v)
  <2>1. "IRCConnectEnabled" \in Sl!Flags /\ "BindHost" \in Sl!NetworkOverUser  BY DEF Sl!Flags, Sl!NetworkOverUser
  <2> QED  BY <1>1, <1>3, <2>1, AnyOwnLegal
<1>5. Legal(k, Sl!PanelSetNetwork(k, m, v, admin, d))
  <2>1. Sl!PanelSetNetwork(k, m, v, admin, d) = m
        \/ (v # "empty" /\ Sl!PanelSetNetwork(k, m, v, admin, d) = Sl!NetworkSet(k, m, v))
    BY DEF Sl!PanelSetNetwork
  <2> QED  BY <1>1, <1>3, <2>1, NetworkSetLegal
<1>6. Legal(k, Sl!CommandNetwork(k, m, v, d))
  <2>1. Sl!CommandNetwork(k, m, v, d) = m
        \/ (k \in {"BindHost", "IRCConnectEnabled"} /\ Sl!CommandNetwork(k, m, v, d) = Sl!NetworkSet(k, m, v))
    BY DEF Sl!CommandNetwork
  <2> QED  BY <1>4, <2>1, NetworkSetLegal
<1>7. Legal(k, Sl!WebSetNetwork(k, m, v, admin, d, r))
  <2> DEFINE n == IF r THEN Sl!NetworkCloned(k, m, m.user) ELSE m
             x == IF k \in Sl!Numbers /\ v = "empty" THEN "0" ELSE v
  <2>1. UserLegal(k, m.user)  BY DEF Legal
  <2>2. Legal(k, n)  BY <2>1, NetworkClonedLegal
  <2>3. OwnLegal(k, x)
    <3>1. CASE x # "empty"  BY <1>1, <1>3, <3>1 DEF Sl!Values
    <3>2. CASE x = "empty"
      <4>1. k \notin Sl!Flags /\ k \notin Sl!Numbers /\ k # "FloodRate"  BY <1>1, <3>2
      <4>2. k \notin OwnFilled
        BY <4>1, FilledClasses DEF OwnFilled, Sl!NetworkOnly, Sl!Flags, Sl!Numbers
      <4> QED  BY <1>1, <1>2, <3>2, <4>2 DEF OwnLegal
    <3> QED  BY <3>1, <3>2
  <2>4. Sl!WebSetNetwork(k, m, v, admin, d, r) = n \/ Sl!WebSetNetwork(k, m, v, admin, d, r) = Sl!NetworkSet(k, n, x)
    BY DEF Sl!WebSetNetwork
  <2> HIDE DEF n, x
  <2> QED  BY <2>2, <2>3, <2>4, NetworkSetLegal
<1> QED  BY <1>5, <1>6, <1>7

LEMMA OwnPutLegal ==
  ASSUME NEW k \in Sl!ChanOnly, NEW m, NEW v, Legal(k, m), OwnLegal(k, v)
  PROVE  Legal(k, [m EXCEPT !.own = v])
<1>1. m \in Sl!Settings /\ UserLegal(k, m.user) /\ m.set \in BOOLEAN  BY SettingFields DEF Legal
<1>2. [m EXCEPT !.own = v] = [user |-> m.user, own |-> v, set |-> m.set]  BY <1>1 DEF Sl!Settings
<1>3. k # "AutoClearChanBuffer"  BY DEF Sl!ChanOnly
<1> QED  BY <1>1, <1>2, <1>3, LegalMade

LEMMA ChanCommandsLegal ==
  ASSUME NEW k \in Sl!ChanKeys, NEW m, NEW v \in Sl!Inputs(k), NEW admin \in BOOLEAN, Legal(k, m)
  PROVE  /\ Legal(k, Sl!PanelSetChan(k, m, v, admin)) /\ Legal(k, Sl!CommandChan(k, m, v))
         /\ Legal(k, Sl!WebSetChan(k, m, v, admin))
<1>0. k \in Sl!Keys  BY DEF Sl!Keys, Sl!ChanKeys, Sl!UserKeys
<1>1. v \in Sl!Values /\ (k \in Sl!Flags => v \in {"true", "false"})  BY <1>0, InputFacts
<1>2. {"Detached", "Disabled", "AutoClearChanBuffer"} \subseteq Sl!Flags
      /\ Sl!ChanOverUser = {"ChanBufferSize", "AutoClearChanBuffer"}
  BY DEF Sl!Flags, Sl!ChanOverUser
<1>3. k \in Sl!ChanOverUser \/ k \in Sl!ChanOnly  BY DEF Sl!ChanKeys
<1>4. k \in Sl!ChanOnly => /\ OwnLegal(k, v) /\ k \notin Sl!ChanOverUser
                           /\ Legal(k, [m EXCEPT !.own = v])
  <2>1. k \in Sl!ChanOnly => k \notin OwnFilled /\ k \notin Sl!ChanOverUser
    BY DEF Sl!ChanOnly, OwnFilled, Sl!ChanOverUser, Sl!NetworkOnly
  <2>2. k \in Sl!ChanOnly => OwnLegal(k, v)  BY <1>1, <1>2, <2>1 DEF OwnLegal
  <2> QED  BY <2>1, <2>2, OwnPutLegal
<1>5. \A x \in Sl!Values : k \in Sl!ChanOverUser /\ x # "empty" =>
        Legal(k, Sl!ChanSet(k, m, x, admin)) /\ Legal(k, Sl!ChanSet(k, m, x, FALSE))
  BY ChanSetLegal, Zenon
<1>6. k \in Sl!ChanOverUser => Legal(k, Sl!ChanReset(k, m))  BY ChanResetLegal
<1>7. Legal(k, Sl!PanelSetChan(k, m, v, admin))
  BY <1>1, <1>2, <1>3, <1>4, <1>5, <1>6, Zenon DEF Sl!PanelSetChan
<1>8. Legal(k, Sl!WebSetChan(k, m, v, admin))
  BY <1>1, <1>2, <1>3, <1>4, <1>5, <1>6, Zenon DEF Sl!WebSetChan
<1>9. Legal(k, Sl!CommandChan(k, m, v))
  <2>1. "0" \in Sl!Values  BY DEF Sl!Values
  <2>2. k \in {"Detached", "Disabled"} => k \in Sl!ChanOnly  BY DEF Sl!ChanOnly
  <2> QED  BY <1>1, <1>2, <1>4, <1>5, <2>1, <2>2, Zenon DEF Sl!CommandChan
<1> QED  BY <1>7, <1>8, <1>9

LEMMA Asked ==
  ASSUME NEW v, NEW admin, NEW m \in Sl!Changed(v, admin) \cup Sl!Submitted(v, admin), NEW d, d = (deny /\ ~admin)
  PROVE  \/ /\ key \in Sl!UserKeys
            /\ m \in {Sl!PanelSetUser(key, mem, v, admin, deny), Sl!CommandUser(key, mem, v, d),
                      Sl!WebSetUser(key, mem, v, admin, deny)}
         \/ /\ key \in Sl!NetworkKeys
            /\ \/ m \in {Sl!PanelSetNetwork(key, mem, v, admin, deny), Sl!CommandNetwork(key, mem, v, d)}
               \/ \E r \in BOOLEAN : m = Sl!WebSetNetwork(key, mem, v, admin, deny, r)
         \/ /\ key \in Sl!ChanKeys
            /\ m \in {Sl!PanelSetChan(key, mem, v, admin), Sl!CommandChan(key, mem, v),
                      Sl!WebSetChan(key, mem, v, admin), Sl!ChanCloned(key, mem, mem.user)}
<1>1. CASE m \in Sl!Changed(v, admin)
  <2>1. \/ key \in Sl!UserKeys /\ m \in {Sl!PanelSetUser(key, mem, v, admin, deny), Sl!CommandUser(key, mem, v, d)}
        \/ key \in Sl!NetworkKeys /\ m \in {Sl!PanelSetNetwork(key, mem, v, admin, deny), Sl!CommandNetwork(key, mem, v, d)}
        \/ key \in Sl!ChanKeys /\ m \in {Sl!PanelSetChan(key, mem, v, admin), Sl!CommandChan(key, mem, v)}
    BY <1>1 DEF Sl!Changed
  <2> QED  BY <2>1
<1>2. CASE m \in Sl!Submitted(v, admin)
  <2>1. \/ key \in Sl!UserKeys /\ m = Sl!WebSetUser(key, mem, v, admin, deny)
        \/ key \in Sl!NetworkKeys /\ \E r \in BOOLEAN : m = Sl!WebSetNetwork(key, mem, v, admin, deny, r)
        \/ key \in Sl!ChanKeys /\ m \in {Sl!WebSetChan(key, mem, v, admin), Sl!ChanCloned(key, mem, mem.user)}
    BY <1>2 DEF Sl!Submitted
  <2> QED  BY <2>1
<1> QED  BY <1>1, <1>2

LEMMA ChangedLegal ==
  ASSUME Legal(key, mem), key \in Sl!Keys, deny \in BOOLEAN, NEW v \in Sl!Inputs(key), NEW admin \in BOOLEAN,
         NEW m \in Sl!Changed(v, admin) \cup Sl!Submitted(v, admin)
  PROVE  Legal(key, m)
<1> DEFINE d == deny /\ ~admin
<1>1. d \in BOOLEAN /\ UserLegal(key, mem.user)  BY DEF Legal
<1>2. d = (deny /\ ~admin)  OBVIOUS
<1> HIDE DEF d
<1>3. CASE key \in Sl!UserKeys /\ m \in {Sl!PanelSetUser(key, mem, v, admin, deny), Sl!CommandUser(key, mem, v, d),
                                         Sl!WebSetUser(key, mem, v, admin, deny)}
  BY <1>1, <1>3, UserCommandsLegal, WebSetUserLegal
<1>4. CASE /\ key \in Sl!NetworkKeys
           /\ \/ m \in {Sl!PanelSetNetwork(key, mem, v, admin, deny), Sl!CommandNetwork(key, mem, v, d)}
              \/ \E r \in BOOLEAN : m = Sl!WebSetNetwork(key, mem, v, admin, deny, r)
  BY <1>1, <1>4, NetworkCommandsLegal
<1>5. CASE key \in Sl!ChanKeys /\ m \in {Sl!PanelSetChan(key, mem, v, admin), Sl!CommandChan(key, mem, v),
                                         Sl!WebSetChan(key, mem, v, admin), Sl!ChanCloned(key, mem, mem.user)}
  BY <1>1, <1>5, ChanCommandsLegal, ChanClonedLegal, Zenon
<1> QED  BY <1>2, <1>3, <1>4, <1>5, Asked
LEMMA UserReadBack ==
  ASSUME NEW k \in Sl!UserKeys, NEW v, NEW p \in Prefixes, UserLegal(k, v)
  PROVE  /\ Sl!UserParsed(k, Sl!UserWritten(k, v, p), p) = Sl!UserEffective(k, v)
         /\ UserLegal(k, Sl!UserEffective(k, v))
<1> DEFINE w == Sl!UserWritten(k, v, p)
           e == Sl!UserEffective(k, v)
<1>1. v \in Sl!Values /\ e \in Sl!Values /\ (e = "empty" => v = "empty")  BY UserEffectiveFacts DEF UserLegal
<1>2. k \in {"StatusPrefix", "Language"} => e = v  BY DEF Sl!UserEffective
<1>3. UserLegal(k, e)  BY <1>1, <1>2 DEF UserLegal
<1>4. w = IF k = "StatusPrefix" /\ v = p THEN "empty" ELSE e  BY DEF Sl!UserWritten
<1>5. Sl!UserParsed(k, w, p) = IF w # "empty" THEN Sl!UserStored(k, Sl!UserDefault(k), w, TRUE)
                               ELSE IF k = "StatusPrefix" THEN p ELSE Sl!UserDefault(k)
  BY DEF Sl!UserParsed
<1>6. e = "empty" /\ k # "StatusPrefix" => Sl!UserDefault(k) = "empty"
  <2> HAVE e = "empty" /\ k # "StatusPrefix"
  <2>1. k \notin UserFilled /\ k \notin {"Nick", "AltNick", "Ident", "RealName", "QuitMsg"}
    BY <1>1 DEF UserLegal, Sl!UserEffective
  <2> QED  BY <2>1 DEF Sl!UserDefault, UserFilled, Sl!UserKeys, Sl!UserTexts, Sl!NetworkOverUser, Sl!Numbers,
                       Sl!ChanOverUser
<1>7. ASSUME w # "empty" PROVE Sl!UserStored(k, Sl!UserDefault(k), w, TRUE) = w /\ w = e
  <2>1. w = e  BY <1>4, <1>7
  <2>2. UserLegal(k, w)  BY <1>3, <2>1
  <2> QED  BY <1>7, <2>1, <2>2 DEF Sl!UserStored, UserLegal
<1>8. k = "StatusPrefix" => v # "empty"  BY DEF UserLegal
<1> HIDE DEF w, e
<1>9. Sl!UserParsed(k, w, p) = e  BY <1>1, <1>2, <1>4, <1>5, <1>6, <1>7, <1>8, Zenon
<1> QED  BY <1>3, <1>9 DEF w, e

LEMMA NetworkReadBack ==
  ASSUME NEW k \in Sl!Keys, k \notin Sl!ChanKeys, NEW m, NEW user, Legal(k, m), UserLegal(k, user),
         k \in Sl!UserKeys => Sl!UserEffective(k, user) = Sl!UserEffective(k, m.user)
  PROVE  LET x == Sl!NetworkParsed(k, user, Sl!NetworkWritten(k, m.own))
         IN  Legal(k, x) /\ (\/ Sl!Same(Sl!Effective(k, x), Sl!Effective(k, m))
                             \/ k = "FloodRate" /\ Sl!Effective(k, m) = "fine")
<1> DEFINE w == Sl!NetworkWritten(k, m.own)
           d == Sl!NetworkDefault(k)
           new == [user |-> user, own |-> d, set |-> FALSE]
           x == Sl!NetworkParsed(k, user, w)
<1>1. m \in Sl!Settings /\ OwnLegal(k, m.own) /\ UserLegal(k, m.user)  BY DEF Legal
<1>2. k \notin Sl!ChanOverUser /\ k \notin {"Detached", "Disabled", "AutoClearChanBuffer"}
  BY DEF Sl!ChanKeys, Sl!ChanOverUser, Sl!ChanOnly
<1>3. w \in Sl!Values /\ (m.own # "empty" <=> w # "empty") /\ (w = m.own \/ (k = "FloodRate" /\ m.own = "fine"))
  BY <1>1 DEF Sl!NetworkWritten, OwnLegal, Sl!Values
<1>4. OwnLegal(k, w) /\ OwnLegal(k, d)  BY <1>1, <1>2, <1>3, NetworkDefaultLegal DEF OwnLegal
<1>5. Legal(k, new)  BY <1>2, <1>4, LegalMade, Zenon
<1>6. x = IF w = "empty" THEN new ELSE Sl!NetworkSet(k, new, w)  BY DEF Sl!NetworkParsed
<1>7. new \in Sl!Settings /\ new.user = user /\ new.own = d /\ new.set = FALSE  BY <1>5 DEF Legal
<1> DEFINE o == IF w = "empty" THEN d
                ELSE IF k \in Sl!NetworkOverUser /\ Sl!Same(Sl!UserEffective(k, user), w) THEN "empty" ELSE w
<1> HIDE DEF new
<1>8. x.user = user /\ x.own = o /\ x = [user |-> user, own |-> o, set |-> FALSE]
  <2>1. new = [user |-> user, own |-> d, set |-> FALSE]  BY DEF new
  <2>2. Sl!NetworkSet(k, new, w) =
          [user |-> user, set |-> FALSE, own |-> IF k \in Sl!NetworkOverUser /\ Sl!Same(Sl!UserEffective(k, user), w)
                                               THEN "empty" ELSE w]
    BY <1>7, NetworkSetFields, Zenon
  <2>3. CASE w = "empty"  BY <1>6, <2>1, <2>3
  <2>4. CASE w # "empty"
    <3>1. x = [user |-> user, set |-> FALSE, own |-> o]  BY <1>6, <2>2, <2>4
    <3> HIDE DEF x, o
    <3> QED  BY <3>1
  <2> QED  BY <2>3, <2>4
<1>9. OwnLegal(k, o)
  <2>1. k \in Sl!NetworkOverUser => OwnLegal(k, "empty")  BY AnyOwnLegal DEF Sl!Values
  <2> QED  BY <1>4, <2>1
<1> HIDE DEF x
<1>10. Legal(k, x)
  <2> HIDE DEF o
  <2> QED  BY <1>2, <1>8, <1>9, LegalMade, Zenon
<1>11. CASE k \in Sl!NetworkOverUser
  <2>1. d = "empty" /\ k \notin Sl!NetworkOnly /\ k # "FloodRate"
    BY <1>11 DEF Sl!NetworkDefault, Sl!NetworkOverUser, Sl!NetworkOnly
  <2>2. \A y : Sl!Effective(k, y) = IF y.own = "empty" THEN Sl!UserEffective(k, y.user) ELSE y.own
    BY <1>11 DEF Sl!Effective, Sl!NetworkOverUser, Sl!NetworkOnly, Sl!ChanKeys, Sl!ChanOverUser, Sl!ChanOnly
  <2>3. w = m.own /\ k \in Sl!UserKeys  BY <1>3, <1>11, <2>1 DEF Sl!UserKeys
  <2>4. CASE m.own = "empty"
    <3>1. o = "empty"  BY <2>1, <2>3, <2>4
    <3>2. Sl!Effective(k, x) = Sl!Effective(k, m)  BY <1>8, <2>2, <2>3, <2>4, <3>1
    <3> QED  BY <1>10, <3>2, SameReflexive DEF x
  <2>5. CASE m.own # "empty"
    <3>1. Sl!Effective(k, m) = w  BY <2>2, <2>3, <2>5
    <3>2. Sl!Effective(k, x) = w \/ Sl!Same(Sl!Effective(k, x), w)
      <4>1. CASE Sl!Same(Sl!UserEffective(k, user), w)
        <5>1. o = "empty"  BY <1>11, <2>3, <2>5, <4>1
        <5>2. Sl!Effective(k, x) = Sl!UserEffective(k, user)  BY <1>8, <2>2, <5>1
        <5> QED  BY <4>1, <5>2
      <4>2. CASE ~Sl!Same(Sl!UserEffective(k, user), w)
        <5>1. o = w  BY <2>3, <2>5, <4>2
        <5> QED  BY <1>8, <2>2, <2>3, <2>5, <5>1
      <4> QED  BY <4>1, <4>2
    <3> QED  BY <1>10, <3>1, <3>2, SameReflexive DEF x
  <2> QED  BY <2>4, <2>5
<1>12. CASE k \in Sl!NetworkOnly
  <2>1. k \notin Sl!NetworkOverUser /\ \A y : Sl!Effective(k, y) = y.own
    BY <1>12 DEF Sl!Effective, Sl!NetworkOnly, Sl!NetworkOverUser
  <2>2. w = "empty" => d = "empty"
    <3> HAVE w = "empty"
    <3>1. k \notin OwnFilled  BY <1>4 DEF OwnLegal
    <3>2. k = "Encoding"  BY <1>12, <3>1 DEF OwnFilled
    <3> QED  BY <3>2 DEF Sl!NetworkDefault
  <2>3. Sl!Effective(k, x) = w /\ Sl!Effective(k, m) = m.own  BY <1>8, <2>1, <2>2
  <2> QED  BY <1>3, <1>10, <2>3, SameReflexive DEF x
<1>13. CASE k \notin Sl!NetworkOverUser /\ k \notin Sl!NetworkOnly
  <2>1. \A y : Sl!Effective(k, y) = Sl!UserEffective(k, y.user)  BY <1>13 DEF Sl!Effective
  <2>2. k \in Sl!UserKeys  BY <1>13 DEF Sl!Keys, Sl!ChanKeys
  <2> QED  BY <1>8, <1>10, <2>1, <2>2, SameReflexive DEF x
<1> QED  BY <1>11, <1>12, <1>13

LEMMA ChanReadBack ==
  ASSUME NEW k \in Sl!ChanKeys, NEW m, NEW user, NEW over, Legal(k, m), UserLegal(k, user),
         k \in Sl!ChanOverUser => user = m.user, Sl!Oversized(k, m) => over
  PROVE  LET x == Sl!ChanParsed(k, user, Sl!ChanWritten(k, m))
         IN  Legal(k, x) /\ (Sl!Same(Sl!Effective(k, x), Sl!Effective(k, m)) \/ over)
<1> DEFINE w == Sl!ChanWritten(k, m)
           x == Sl!ChanParsed(k, user, w)
<1>1. m \in Sl!Settings /\ OwnLegal(k, m.own) /\ m.set \in BOOLEAN /\ m.own \in Sl!Values  BY SettingFields DEF Legal
<1>2. k \notin Sl!NetworkOverUser /\ \A y : Sl!Effective(k, y) = y.own
  BY DEF Sl!Effective, Sl!NetworkOverUser, Sl!ChanKeys, Sl!ChanOverUser, Sl!ChanOnly
<1>3. CASE k \in Sl!ChanOverUser
  <2>1. k \in OwnFilled /\ k \in {"ChanBufferSize", "AutoClearChanBuffer"} /\ k \notin {"Detached", "Disabled"}
    BY <1>3 DEF OwnFilled, Sl!ChanOverUser
  <2>2. w = IF m.set THEN m.own ELSE "empty"  BY <1>3, <2>1 DEF Sl!ChanWritten
  <2>3. CASE m.set
    <3>1. m.own # "empty"  BY <1>1, <2>1 DEF OwnLegal
    <3> DEFINE s == k \in Sl!ChanOverUser
    <3>2. w # "empty"  BY <2>2, <2>3, <3>1
    <3>3. x = [user |-> user, set |-> s, own |-> w]  BY <3>2 DEF Sl!ChanParsed
    <3>4. w = m.own /\ s \in BOOLEAN /\ s  BY <1>3, <2>2, <2>3
    <3> HIDE DEF s, w, x
    <3>5. x.own = m.own  BY <3>3, <3>4
    <3>6. Legal(k, x)  BY <1>1, <3>3, <3>4, LegalMade, Zenon
    <3> QED  BY <1>2, <3>5, <3>6, SameReflexive DEF x, w
  <2>4. CASE ~m.set
    <3>1. w = "empty"  BY <2>2, <2>4
    <3>2. x = [user |-> user, set |-> FALSE, own |-> user]  BY <1>3, <3>1 DEF Sl!ChanParsed
    <3>3. OwnLegal(k, user)  BY <1>3, <2>1, FilledClasses DEF UserLegal, OwnLegal
    <3> HIDE DEF x
    <3>4. Legal(k, x) /\ x.own = m.user  BY <1>3, <3>2, <3>3, LegalMade, Zenon
    <3>5. m.own = m.user \/ over  BY <2>1, <2>4 DEF Legal, Sl!Oversized
    <3> QED  BY <1>2, <3>4, <3>5, SameReflexive DEF x, w
  <2> QED  BY <2>3, <2>4
<1>4. CASE k \notin Sl!ChanOverUser
  <2>1. k \in Sl!ChanOnly  BY <1>4 DEF Sl!ChanKeys
  <2>2. k \in {"Detached", "Disabled"} => m.own \in {"true", "false"}  BY <1>1 DEF OwnLegal
  <2>3. w = IF k \in {"Detached", "Disabled"} THEN (IF m.own = "true" THEN "true" ELSE "empty") ELSE m.own
    BY <1>4 DEF Sl!ChanWritten
  <2>4. (IF w = "empty" THEN Sl!NetworkDefault(k) ELSE w) = m.own
    BY <2>1, <2>2, <2>3 DEF Sl!NetworkDefault, Sl!ChanOnly
  <2> DEFINE s == k \in Sl!ChanOverUser
  <2>5. x = IF w = "empty" THEN [user |-> user, set |-> FALSE, own |-> Sl!NetworkDefault(k)]
            ELSE [user |-> user, set |-> s, own |-> w]
    BY <1>4 DEF Sl!ChanParsed
  <2>6. s = FALSE  BY <1>4
  <2> HIDE DEF s, w, x
  <2>7. x = [user |-> user, own |-> m.own, set |-> FALSE]  BY <2>4, <2>5, <2>6, Zenon
  <2>8. k # "AutoClearChanBuffer"  BY <1>4 DEF Sl!ChanOverUser
  <2>9. x.own = m.own /\ Legal(k, x)  BY <1>1, <2>7, <2>8, LegalMade, Zenon
  <2> QED  BY <1>2, <2>9, SameReflexive DEF x, w
<1> QED  BY <1>3, <1>4

\* What is written is read back (ToConfig, ParseConfig).
LEMMA ReadBack ==
  ASSUME NEW k \in Sl!Keys, NEW m, NEW p \in Prefixes, NEW over, Legal(k, m), Sl!Oversized(k, m) => over
  PROVE  Gives(k, Sl!Written(k, m, p), p, Sl!Effective(k, m), over)
<1> DEFINE wu == IF k \in Sl!UserKeys THEN Sl!UserWritten(k, m.user, p) ELSE "empty"
           wo == IF k \in Sl!ChanKeys THEN Sl!ChanWritten(k, m) ELSE Sl!NetworkWritten(k, m.own)
           user == IF k \in Sl!UserKeys THEN Sl!UserParsed(k, wu, p) ELSE "empty"
           w == Sl!Written(k, m, p)
           x == Sl!Parsed(k, w, p)
<1>1. w.user = wu /\ w.own = wo  BY DEF Sl!Written
<1>2. UserLegal(k, m.user) /\ m.user \in Sl!Values /\ m \in Sl!Settings  BY DEF Legal, UserLegal
<1>3. x = IF k \in Sl!ChanKeys THEN Sl!ChanParsed(k, user, wo) ELSE Sl!NetworkParsed(k, user, wo)
  BY <1>1 DEF Sl!Parsed
<1>4. k \in Sl!UserKeys => user = Sl!UserEffective(k, m.user) /\ UserLegal(k, user)  BY <1>2, UserReadBack
<1>5. k \notin Sl!UserKeys => UserLegal(k, user)  BY EmptyLegal
<1> HIDE DEF x, user
<1>7. CASE k \in Sl!ChanKeys
  <2>1. k \in Sl!ChanOverUser => user = m.user
    <3> HAVE k \in Sl!ChanOverUser
    <3>1. k \in Sl!UserKeys /\ k \notin {"Nick", "AltNick", "Ident", "RealName", "QuitMsg"}
      BY DEF Sl!ChanOverUser, Sl!UserKeys
    <3> QED  BY <1>4, <3>1 DEF Sl!UserEffective
  <2>2. wo = Sl!ChanWritten(k, m) /\ x = Sl!ChanParsed(k, user, wo)  BY <1>3, <1>7
  <2>3. Legal(k, x) /\ (Sl!Same(Sl!Effective(k, x), Sl!Effective(k, m)) \/ over)
    BY <1>4, <1>5, <1>7, <2>1, <2>2, ChanReadBack
  <2> QED  BY <2>3 DEF Gives, x, w
<1>8. CASE k \notin Sl!ChanKeys
  <2>1. wo = Sl!NetworkWritten(k, m.own) /\ x = Sl!NetworkParsed(k, user, wo)  BY <1>3, <1>8
  <2>2. k \in Sl!UserKeys => Sl!UserEffective(k, user) = Sl!UserEffective(k, m.user)
    BY <1>2, <1>4, UserEffectiveFacts
  <2>3. Legal(k, x) /\ (\/ Sl!Same(Sl!Effective(k, x), Sl!Effective(k, m))
                        \/ k = "FloodRate" /\ Sl!Effective(k, m) = "fine")
    BY <1>4, <1>5, <1>8, <2>1, <2>2, NetworkReadBack
  <2> QED  BY <2>3 DEF Gives, x, w
<1> QED  BY <1>7, <1>8
-----------------------------------------------------------------------------
(* Clone *)

LEMMA UserClonedSame ==
  ASSUME NEW k \in Sl!UserKeys, NEW v, UserLegal(k, v)
  PROVE  Sl!UserCloned(k, v) = IF k \in {"RealName", "QuitMsg"} THEN Sl!UserEffective(k, v) ELSE v
<1>1. \A x, y : UserLegal(k, x) => Sl!UserStored(k, y, x, TRUE) = x
  BY DEF Sl!UserStored, UserLegal
<1>2. "a" \in Prefixes  BY DEF Prefixes
<1>3. UserLegal(k, Sl!UserEffective(k, v))  BY <1>2, UserReadBack
<1> QED  BY <1>1, <1>3, Zenon DEF Sl!UserCloned

LEMMA UserClonedEffective ==
  ASSUME NEW k \in Sl!UserKeys, NEW v, UserLegal(k, v)
  PROVE  /\ Sl!UserEffective(k, Sl!UserCloned(k, v)) = Sl!UserEffective(k, v)
         /\ UserLegal(k, Sl!UserCloned(k, v))
<1>1. "a" \in Prefixes /\ v \in Sl!Values  BY DEF Prefixes, UserLegal
<1>2. UserLegal(k, Sl!UserEffective(k, v))  BY <1>1, UserReadBack
<1> QED  BY <1>1, <1>2, UserClonedSame, UserEffectiveFacts

LEMMA NetworkClonedSame ==
  ASSUME NEW k \in Sl!NetworkKeys, NEW m, NEW user, Legal(k, m), UserLegal(k, user),
         k \in Sl!UserKeys => Sl!UserEffective(k, user) = Sl!UserEffective(k, m.user),
         k \notin {"TrustAllCerts", "TrustPKI"}
  PROVE  Sl!Same(Sl!Effective(k, Sl!NetworkCloned(k, m, user)), Sl!Effective(k, m))
<1> DEFINE new == [user |-> user, own |-> Sl!NetworkDefault(k), set |-> FALSE]
           e == Sl!Effective(k, m)
           x == Sl!NetworkCloned(k, m, user)
           o == IF k \in Sl!NetworkOverUser /\ Sl!Same(Sl!UserEffective(k, user), e) THEN "empty" ELSE e
<1>1. Legal(k, new)  BY NewNetworkLegal
<1>2. new \in Sl!Settings /\ new.user = user  BY <1>1 DEF Legal
<1>3. x = Sl!NetworkSet(k, new, e)  BY DEF Sl!NetworkCloned
<1> HIDE DEF new, x, e
<1>4. x.user = user /\ x.own = o
  <2> HIDE DEF o
  <2>1. x = [user |-> new.user, set |-> new.set, own |-> o]  BY <1>2, <1>3, NetworkSetFields DEF o
  <2> QED  BY <1>2, <2>1
<1>5. CASE k \in Sl!NetworkOverUser
  <2>1. \A y : Sl!Effective(k, y) = IF y.own = "empty" THEN Sl!UserEffective(k, y.user) ELSE y.own
    BY <1>5 DEF Sl!Effective, Sl!NetworkOverUser, Sl!NetworkOnly, Sl!ChanKeys, Sl!ChanOverUser, Sl!ChanOnly
  <2>2. k \in Sl!UserKeys  BY <1>5 DEF Sl!UserKeys
  <2>3. CASE Sl!Same(Sl!UserEffective(k, user), e)
    <3>1. o = "empty"  BY <1>5, <2>3
    <3>2. Sl!Effective(k, x) = Sl!UserEffective(k, user)  BY <1>4, <2>1, <3>1
    <3> QED  BY <2>3, <3>2 DEF x, e
  <2>4. CASE ~Sl!Same(Sl!UserEffective(k, user), e)
    <3>1. o = e  BY <2>4
    <3>2. e # "empty"
      <4>1. SUFFICES ASSUME e = "empty" PROVE FALSE  OBVIOUS
      <4>2. e = Sl!UserEffective(k, m.user)  BY <2>1, <4>1 DEF e
      <4>3. Sl!UserEffective(k, user) = e  BY <2>2, <4>2
      <4> QED  BY <2>4, <4>3, SameReflexive
    <3>3. Sl!Effective(k, x) = e  BY <1>4, <2>1, <3>1, <3>2
    <3> QED  BY <3>3, SameReflexive DEF x, e
  <2> QED  BY <2>3, <2>4
<1>6. CASE k \notin Sl!NetworkOverUser
  <2>1. \A y : Sl!Effective(k, y) = y.own
    BY <1>6 DEF Sl!Effective, Sl!NetworkKeys
  <2>2. o = e  BY <1>6
  <2>3. Sl!Effective(k, x) = e  BY <1>4, <2>1, <2>2
  <2> QED  BY <2>3, SameReflexive DEF x, e
<1> QED  BY <1>5, <1>6

LEMMA CloneRight == ASSUME key \in Sl!Keys, Legal(key, mem) PROVE Sl!CloneKeeps
<1> DEFINE user == IF key \in Sl!UserKeys THEN Sl!UserCloned(key, mem.user) ELSE "empty"
           x == Sl!Cloned(key, mem)
<1> SUFFICES ASSUME key \notin {"TrustAllCerts", "TrustPKI", "Disabled"}
             PROVE  Sl!Same(Sl!Effective(key, x), Sl!Effective(key, mem))
  BY DEF Sl!CloneKeeps
<1>1. UserLegal(key, mem.user) /\ mem \in Sl!Settings  BY DEF Legal
<1>2. key \in Sl!UserKeys => /\ Sl!UserEffective(key, user) = Sl!UserEffective(key, mem.user)
                             /\ UserLegal(key, user)
  BY <1>1, UserClonedEffective
<1>3. key \notin Sl!UserKeys => UserLegal(key, user)  BY EmptyLegal
<1>4. x = IF key \in Sl!ChanKeys THEN Sl!ChanCloned(key, mem, user)
          ELSE IF key \in Sl!NetworkKeys THEN Sl!NetworkCloned(key, mem, user)
          ELSE [mem EXCEPT !.user = user]
  BY DEF Sl!Cloned
<1> HIDE DEF user, x
<1>5. CASE key \in Sl!ChanKeys
  <2>1. key \notin Sl!NetworkOverUser /\ \A y : Sl!Effective(key, y) = y.own
    BY <1>5 DEF Sl!Effective, Sl!NetworkOverUser, Sl!ChanKeys, Sl!ChanOverUser, Sl!ChanOnly
  <2>2. x.own = mem.own  BY <1>4, <1>5 DEF Sl!ChanCloned
  <2>3. Sl!Effective(key, x) = Sl!Effective(key, mem)  BY <2>1, <2>2
  <2> QED  BY <2>3, SameReflexive DEF x
<1>6. CASE key \notin Sl!ChanKeys /\ key \in Sl!NetworkKeys
  <2>1. x = Sl!NetworkCloned(key, mem, user)  BY <1>4, <1>6
  <2>2. UserLegal(key, user)  BY <1>2, <1>3
  <2> QED  BY <1>2, <1>6, <2>1, <2>2, NetworkClonedSame DEF x
<1>7. CASE key \notin Sl!ChanKeys /\ key \notin Sl!NetworkKeys
  <2>1. key \in Sl!UserKeys  BY <1>7 DEF Sl!Keys, Sl!ChanKeys, Sl!NetworkKeys
  <2>2. \A y : Sl!Effective(key, y) = Sl!UserEffective(key, y.user)
    BY <1>7 DEF Sl!Effective, Sl!NetworkKeys
  <2>3. x.user = user  BY <1>1, <1>4, <1>7 DEF Sl!Settings
  <2>4. Sl!Effective(key, x) = Sl!Effective(key, mem)  BY <1>2, <2>1, <2>2, <2>3
  <2> QED  BY <2>4, SameReflexive DEF x
<1> QED  BY <1>5, <1>6, <1>7
-----------------------------------------------------------------------------
(* What is asked for *)

\* What a user who is no admin asks for.
LEMMA ReservedKept ==
  ASSUME key \in Sl!AdminOnly, Legal(key, mem), NEW v \in Sl!Inputs(key),
         NEW m \in Sl!Changed(v, FALSE) \cup Sl!Submitted(v, FALSE)
  PROVE  m = mem
<1>1. /\ key \in Sl!UserKeys /\ key \notin Sl!NetworkKeys /\ key \notin Sl!ChanKeys
      /\ key \notin {"StatusPrefix", "Language", "CTCPReply", "BindHost", "RealName", "QuitMsg"}
      /\ key \notin Sl!BufferSizes /\ key \notin Sl!Guarded
  BY KeyClasses
<1>2. \/ m = Sl!PanelSetUser(key, mem, v, FALSE, deny)
      \/ m = Sl!CommandUser(key, mem, v, deny /\ ~FALSE)
      \/ m = Sl!WebSetUser(key, mem, v, FALSE, deny)
  BY <1>1, Zenon DEF Sl!Changed, Sl!Submitted
<1>3. Sl!PanelSetUser(key, mem, v, FALSE, deny) = mem
  BY <1>1, Zenon DEF Sl!PanelSetUser, Sl!PanelRefuses
<1>4. \A d : Sl!CommandUser(key, mem, v, d) = mem  BY <1>1, Zenon DEF Sl!CommandUser
<1>5. Sl!WebSetUser(key, mem, v, FALSE, deny) = mem
  <2>1. key \notin Sl!ChanOverUser /\ key \notin {"Allow", "NoTrafficTimeout", "Skin", "Timezone"}
    BY DEF Sl!AdminOnly, Sl!DenyFlags, Sl!ChanOverUser
  <2>2. Sl!NewUser(key, mem, v, FALSE, deny) = mem.user
    BY <1>1, <2>1, Zenon DEF Sl!NewUser, Sl!NewUserReserved
  <2>3. UserLegal(key, mem.user) /\ mem \in Sl!Settings  BY DEF Legal
  <2>4. Sl!UserCloned(key, mem.user) = mem.user  BY <1>1, <2>3, UserClonedSame
  <2>5. Sl!UserStored(key, mem.user, mem.user, TRUE) = mem.user  BY DEF Sl!UserStored
  <2>6. Sl!UserSet(key, mem, mem.user, TRUE) = [user |-> mem.user, set |-> mem.set, own |-> mem.own]
    <3> DEFINE f == TRUE
               u == Sl!UserStored(key, mem.user, mem.user, f)
    <3>1. u = mem.user  BY <2>5, Zenon
    <3> HIDE DEF f
    <3>2. Sl!UserSet(key, mem, mem.user, f) = [user |-> u, set |-> mem.set, own |-> mem.own]
      BY <2>1, <2>3, UserSetOther
    <3> HIDE DEF u
    <3>3. Sl!UserSet(key, mem, mem.user, f) = [user |-> mem.user, set |-> mem.set, own |-> mem.own]
      BY <3>1, <3>2
    <3> QED  BY <3>3, Zenon DEF f
  <2>7. Sl!WebSetUser(key, mem, v, FALSE, deny) = Sl!UserSet(key, mem, mem.user, TRUE)
    BY <2>2, <2>4, Zenon DEF Sl!WebSetUser
  <2> QED  BY <2>3, <2>6, <2>7, SettingFields, Zenon
<1> QED  BY <1>2, <1>3, <1>4, <1>5, Zenon

LEMMA GuardedKept ==
  ASSUME key \in Sl!Guarded, deny, Legal(key, mem), NEW v \in Sl!Inputs(key),
         NEW m \in Sl!Changed(v, FALSE) \cup Sl!Submitted(v, FALSE)
  PROVE  Sl!Same(Sl!Effective(key, m), Sl!Effective(key, mem)) \/ (key = "CTCPReply" /\ m.user = "empty")
<1>1. /\ key \in Sl!UserKeys /\ key \notin Sl!ChanKeys /\ key \notin Sl!BufferSizes
      /\ key \notin {"StatusPrefix", "Language", "Skin", "Allow", "TrustAllCerts", "TrustPKI"}
      /\ key \in Sl!NetworkOverUser \/ key \notin Sl!NetworkKeys
  BY KeyClasses
<1>2. key # "IRCConnectEnabled" /\ key \notin Sl!ChanOverUser /\ key \notin Sl!AdminOnly
  BY <1>1, KeyClasses DEF Sl!Guarded, Sl!ChanKeys
<1>3. UserLegal(key, mem.user) /\ mem \in Sl!Settings /\ mem.user \in Sl!Values  BY DEF Legal, UserLegal
<1> DEFINE d == deny /\ ~FALSE
<1>a. d = (deny /\ ~FALSE) /\ d  OBVIOUS
<1> HIDE DEF d
<1>4. \/ m = Sl!PanelSetUser(key, mem, v, FALSE, deny) \/ m = Sl!CommandUser(key, mem, v, d)
      \/ m = Sl!WebSetUser(key, mem, v, FALSE, deny)
      \/ key \in Sl!NetworkKeys /\ \/ m = Sl!PanelSetNetwork(key, mem, v, FALSE, deny)
                                   \/ m = Sl!CommandNetwork(key, mem, v, d)
                                   \/ \E r \in BOOLEAN : m = Sl!WebSetNetwork(key, mem, v, FALSE, deny, r)
  BY <1>1, <1>a, Asked, Zenon
<1>5. Sl!PanelSetUser(key, mem, v, FALSE, deny) = mem
  BY DEF Sl!PanelSetUser, Sl!PanelCTCP, Sl!PanelRefuses
<1>6. Sl!CommandUser(key, mem, v, d) = mem /\ Sl!PanelSetNetwork(key, mem, v, FALSE, deny) = mem
      /\ Sl!CommandNetwork(key, mem, v, d) = mem
  BY <1>2, <1>a DEF Sl!CommandUser, Sl!PanelSetNetwork, Sl!CommandNetwork
<1>7. CASE m = Sl!WebSetUser(key, mem, v, FALSE, deny)
  <2> DEFINE n == Sl!NewUser(key, mem, v, FALSE, deny)
             c == Sl!UserCloned(key, n)
             e == Sl!UserEffective(key, mem.user)
  <2>1. m = Sl!UserSet(key, mem, c, TRUE)  BY <1>7 DEF Sl!WebSetUser
  <2>2. Sl!UserStored(key, mem.user, c, TRUE) = c  BY <1>1, Zenon DEF Sl!UserStored
  <2>3. m = [user |-> c, set |-> mem.set, own |-> mem.own]  
    <3> DEFINE f == TRUE
               u == Sl!UserStored(key, mem.user, c, f)
    <3>1. u = c /\ m = Sl!UserSet(key, mem, c, f)  BY <2>1, <2>2, Zenon
    <3> HIDE DEF f, c
    <3>2. Sl!UserSet(key, mem, c, f) = [user |-> u, set |-> mem.set, own |-> mem.own]
      BY <1>2, <1>3, UserSetOther
    <3> HIDE DEF u
    <3> QED  BY <3>1, <3>2
  <2>a. key \notin {"NoTrafficTimeout", "Timezone"} /\ key \notin Sl!Flags /\ key \notin Sl!Numbers
    BY DEF Sl!Guarded, Sl!Flags, Sl!Numbers, Sl!UserFlags, Sl!UserNumbers, Sl!DenyFlags
  <2>4. CASE key = "CTCPReply"
    <3>1. n = "empty"  BY <1>1, <1>2, <2>a, <2>4, Zenon DEF Sl!NewUser
    <3>2. c = "empty"  BY <2>4, <3>1, Zenon DEF Sl!UserCloned, Sl!UserStored
    <3> HIDE DEF c
    <3> QED  BY <2>3, <2>4, <3>2
  <2>5. CASE key # "CTCPReply"
    <3>1. n = e  BY <1>1, <1>2, <2>a, <2>5, Zenon DEF Sl!NewUser
    <3>2. "a" \in Prefixes  BY DEF Prefixes
    <3>3. UserLegal(key, e)  BY <1>1, <1>3, <3>2, UserReadBack
    <3>a. Sl!UserEffective(key, e) = e  BY <1>3, UserEffectiveFacts
    <3>b. Sl!UserCloned(key, e) = IF key \in {"RealName", "QuitMsg"} THEN Sl!UserEffective(key, e) ELSE e
      <4> HIDE DEF e
      <4> QED  BY <1>1, <3>3, UserClonedSame
    <3>c. c = Sl!UserCloned(key, e)  BY <3>1, Zenon
    <3>4. c = e /\ Sl!UserEffective(key, e) = e
      <4> HIDE DEF c, e
      <4> QED  BY <3>a, <3>b, <3>c
    <3> HIDE DEF c, e, n
    <3>5. m.user = e /\ m.own = mem.own  BY <2>3, <3>4
    <3>6. \A y : Sl!Effective(key, y) = IF key \in Sl!NetworkOverUser /\ y.own # "empty" THEN y.own
                                        ELSE Sl!UserEffective(key, y.user)
      <4>1. key \notin Sl!NetworkOnly
        BY DEF Sl!Guarded, Sl!NetworkOnly
      <4> QED  BY <1>1, <4>1 DEF Sl!Effective
    <3>7. Sl!Effective(key, m) = Sl!Effective(key, mem)  BY <3>4, <3>5, <3>6 DEF e
    <3> QED  BY <3>7, SameReflexive
  <2> QED  BY <2>4, <2>5
<1>8. CASE key \in Sl!NetworkKeys /\ \E r \in BOOLEAN : m = Sl!WebSetNetwork(key, mem, v, FALSE, deny, r)
  <2>1. m = mem \/ m = Sl!NetworkCloned(key, mem, mem.user)
    BY <1>8 DEF Sl!WebSetNetwork
  <2>2. Sl!Same(Sl!Effective(key, Sl!NetworkCloned(key, mem, mem.user)), Sl!Effective(key, mem))
    BY <1>1, <1>3, <1>8, NetworkClonedSame
  <2> QED  BY <2>1, <2>2, SameReflexive
<1> QED  BY <1>4, <1>5, <1>6, <1>7, <1>8, SameReflexive, Zenon

LEMMA BuffersKept ==
  ASSUME key \in Sl!BufferSizes, Legal(key, mem), NEW v \in Sl!Inputs(key),
         NEW m \in Sl!Changed(v, FALSE) \cup Sl!Submitted(v, FALSE), m.user = "big"
  PROVE  mem.user = "big"
<1>1. /\ key \in Sl!UserKeys /\ key \notin Sl!NetworkKeys
      /\ key \notin {"StatusPrefix", "Language", "CTCPReply", "BindHost", "RealName", "QuitMsg"}
  BY KeyClasses
<1>2. UserLegal(key, mem.user) /\ mem \in Sl!Settings  BY DEF Legal
<1> DEFINE d == deny /\ ~FALSE
<1>a. d = (deny /\ ~FALSE)  OBVIOUS
<1> HIDE DEF d
<1>3. \/ m = Sl!PanelSetUser(key, mem, v, FALSE, deny) \/ m = Sl!CommandUser(key, mem, v, d)
      \/ m = Sl!WebSetUser(key, mem, v, FALSE, deny)
      \/ key \in Sl!ChanKeys /\ m \in {Sl!PanelSetChan(key, mem, v, FALSE), Sl!CommandChan(key, mem, v),
                                       Sl!WebSetChan(key, mem, v, FALSE), Sl!ChanCloned(key, mem, mem.user)}
  BY <1>1, <1>a, Asked, Zenon
<1>4. \A x, f : /\ Sl!UserSet(key, mem, x, f).user = Sl!UserStored(key, mem.user, x, f)
                /\ Sl!ChanSet(key, mem, x, f).user = mem.user
  BY <1>2, UserSetFields, ChanSetFields
<1>5. CASE m = Sl!PanelSetUser(key, mem, v, FALSE, deny)
  <2>1. m = mem \/ m = Sl!UserSet(key, mem, v, FALSE)  BY <1>1, <1>5, Zenon DEF Sl!PanelSetUser
  <2>2. Sl!UserSet(key, mem, v, FALSE).user = Sl!UserStored(key, mem.user, v, FALSE)  BY <1>4, Zenon
  <2>3. Sl!UserStored(key, mem.user, v, FALSE) = "big" => mem.user = "big"  BY DEF Sl!UserStored
  <2> QED  BY <2>1, <2>2, <2>3, Zenon
<1>6. CASE m = Sl!CommandUser(key, mem, v, d)  BY <1>1, <1>6, Zenon DEF Sl!CommandUser
<1>7. CASE m = Sl!WebSetUser(key, mem, v, FALSE, deny)
  <2> DEFINE n == Sl!NewUser(key, mem, v, FALSE, deny)
             c == Sl!UserCloned(key, n)
  <2>1. m.user = Sl!UserStored(key, mem.user, c, TRUE)  BY <1>4, <1>7, Zenon DEF Sl!WebSetUser
  <2>2. c = n  BY <1>1, Zenon DEF Sl!UserCloned, Sl!UserStored
  <2>3. Sl!UserStored(key, mem.user, c, TRUE) = c  BY <1>1, Zenon DEF Sl!UserStored
  <2>4. key \notin Sl!AdminOnly /\ key \notin Sl!Guarded /\ key \notin {"Allow", "NoTrafficTimeout", "Skin", "Timezone"}
        /\ key \notin Sl!Flags /\ key \in Sl!Numbers
    BY KeyClasses DEF Sl!BufferSizes, Sl!Flags, Sl!UserFlags, Sl!DenyFlags, Sl!Numbers, Sl!UserNumbers
  <2>5. n = IF v = "empty" THEN Sl!UserDefault(key) ELSE Sl!UserStored(key, mem.user, v, FALSE)
    BY <1>1, <2>4, Zenon DEF Sl!NewUser
  <2>6. Sl!UserDefault(key) # "big"  BY DEF Sl!UserDefault
  <2> HIDE DEF n, c
  <2>7. n = "big"  BY <2>1, <2>2, <2>3, Zenon
  <2> QED  BY <2>5, <2>6, <2>7 DEF Sl!UserStored
<1>8. CASE key \in Sl!ChanKeys /\ m \in {Sl!PanelSetChan(key, mem, v, FALSE), Sl!CommandChan(key, mem, v),
                                       Sl!WebSetChan(key, mem, v, FALSE), Sl!ChanCloned(key, mem, mem.user)}
  <2>1. key = "ChanBufferSize"
    BY <1>8 DEF Sl!BufferSizes, Sl!ChanKeys, Sl!ChanOverUser, Sl!ChanOnly
  <2>2. Sl!ChanReset(key, mem).user = mem.user
    <3> DEFINE x == Sl!ChanSet(key, mem, mem.user, FALSE)
    <3>1. Sl!ChanReset(key, mem) = [x EXCEPT !.set = FALSE]  BY DEF Sl!ChanReset
    <3>2. x = [user |-> mem.user, set |-> TRUE, own |-> Sl!UserStored(key, mem.own, mem.user, FALSE)]
      BY <1>2, <2>1, ChanSetFields, Zenon
    <3> HIDE DEF x
    <3> QED  BY <3>1, <3>2
  <2>3. Sl!PanelSetChan(key, mem, v, FALSE).user = mem.user
    BY <1>4, <2>1, <2>2, Zenon DEF Sl!PanelSetChan, Sl!ChanOverUser
  <2>4. Sl!CommandChan(key, mem, v).user = mem.user  BY <1>4, <2>1, Zenon DEF Sl!CommandChan
  <2>5. Sl!WebSetChan(key, mem, v, FALSE).user = mem.user  BY <1>4, <2>1, <2>2, Zenon DEF Sl!WebSetChan
  <2>6. Sl!ChanCloned(key, mem, mem.user).user = mem.user  BY DEF Sl!ChanCloned
  <2> QED  BY <1>8, <2>3, <2>4, <2>5, <2>6, Zenon
<1> QED  BY <1>3, <1>5, <1>6, <1>7, <1>8, Zenon
-----------------------------------------------------------------------------
(* The steps of a setting *)

LEMMA SettingInit == Sl!Init => SettingInv
<1> SUFFICES ASSUME Sl!Init PROVE SettingInv  OBVIOUS
<1>1. /\ key \in Sl!Keys /\ mem = Sl!NewSetting(key) /\ deny = FALSE /\ prefix = "def" /\ by = "znc"
      /\ file = [lines |-> Sl!Written(key, mem, prefix), prefix |-> prefix]
      /\ inForce = [value |-> Sl!Effective(key, mem), over |-> FALSE]
  BY DEF Sl!Init
<1>2. prefix \in Prefixes /\ deny \in BOOLEAN  BY <1>1, Zenon DEF Prefixes
<1>3. Legal(key, mem)  BY <1>1, NewLegal
<1>4. ~Sl!Oversized(key, mem)
  BY <1>1 DEF Sl!Oversized, Sl!NewSetting, Sl!UserKeys, Sl!ChanOverUser
<1>5. \A o : Gives(key, Sl!Written(key, mem, prefix), prefix, Sl!Effective(key, mem), o)
  BY <1>1, <1>2, <1>3, <1>4, ReadBack
<1>6. /\ file.prefix = prefix /\ file.lines = Sl!Written(key, mem, prefix)
      /\ inForce.value = Sl!Effective(key, mem)
  BY <1>1
<1> QED  BY <1>1, <1>2, <1>3, <1>5, <1>6, Zenon DEF SettingInv

\* WriteConfig with m in memory.
LEMMA SavedKeeps ==
  ASSUME key \in Sl!Keys, prefix \in Prefixes, NEW m, Legal(key, m), Sl!Saved(m)
  PROVE  file'.prefix \in Prefixes /\ Gives(key, file'.lines, file'.prefix, inForce'.value, inForce'.over)
<1> DEFINE o == Sl!Oversized(key, m)
<1>1. Gives(key, Sl!Written(key, m, prefix), prefix, Sl!Effective(key, m), o)  BY ReadBack
<1>2. /\ file' = [lines |-> Sl!Written(key, m, prefix), prefix |-> prefix]
      /\ inForce' = [value |-> Sl!Effective(key, m), over |-> o]
  BY DEF Sl!Saved
<1> HIDE DEF o
<1>3. file'.prefix = prefix /\ file'.lines = Sl!Written(key, m, prefix) /\ inForce'.value = Sl!Effective(key, m)
      /\ inForce'.over = o
  BY <1>2
<1> QED  BY <1>1, <1>3

LEMMA SettingStep == SettingInv /\ Sl!Next => SettingInv'
<1> SUFFICES ASSUME SettingInv, Sl!Next PROVE SettingInv'  OBVIOUS
<1>0. /\ key \in Sl!Keys /\ deny \in BOOLEAN /\ prefix \in Prefixes /\ Legal(key, mem) /\ file.prefix \in Prefixes
      /\ Gives(key, file.lines, file.prefix, inForce.value, inForce.over)
  BY DEF SettingInv
<1> DEFINE FileRight == file.prefix \in Prefixes /\ Gives(key, file.lines, file.prefix, inForce.value, inForce.over)
<1>a. ASSUME UNCHANGED <<key, file, inForce>> PROVE FileRight'
  BY <1>0, <1>a
<1>1. ASSUME NEW admin \in BOOLEAN, Sl!Change(admin) PROVE SettingInv'
  <2>1. PICK v \in Sl!Inputs(key) : mem' \in Sl!Changed(v, admin)  BY <1>1 DEF Sl!Change
  <2>2. UNCHANGED <<key, deny, prefix, file, inForce>> /\ by' \in {"admin", "self"}  BY <1>1 DEF Sl!Change
  <2>3. Legal(key, mem')  BY <1>0, <2>1, ChangedLegal
  <2>4. FileRight'  BY <1>a, <2>2
  <2> QED  BY <1>0, <2>2, <2>3, <2>4 DEF SettingInv
<1>2. ASSUME NEW admin \in BOOLEAN, Sl!Submit(admin) PROVE SettingInv'
  <2>0. PICK v \in Sl!Inputs(key) : \E m \in Sl!Submitted(v, admin) : mem' = m /\ Sl!Saved(m)
    BY <1>2 DEF Sl!Submit
  <2>1. PICK m \in Sl!Submitted(v, admin) : mem' = m /\ Sl!Saved(m)  BY <2>0
  <2>2. UNCHANGED <<key, deny, prefix>> /\ by' \in {"admin", "self"}  BY <1>2 DEF Sl!Submit
  <2>3. Legal(key, m)  BY <1>0, <2>1, ChangedLegal
  <2>4. FileRight'  BY <1>0, <2>1, <2>2, <2>3, SavedKeeps
  <2> QED  BY <1>0, <2>1, <2>2, <2>3, <2>4 DEF SettingInv
<1>3. CASE Sl!SetDeny
  <2>1. UNCHANGED <<key, mem, prefix, file, inForce>> /\ by' = "admin" /\ deny' \in BOOLEAN  BY <1>0, <1>3 DEF Sl!SetDeny
  <2>2. FileRight'  BY <1>a, <2>1
  <2> QED  BY <1>0, <2>1, <2>2 DEF SettingInv
<1>4. CASE Sl!SetGlobalPrefix
  <2>1. PICK p \in {"def", "a"} : prefix' = p /\ file' = [lines |-> Sl!Written(key, mem, p), prefix |-> p]
    BY <1>4 DEF Sl!SetGlobalPrefix
  <2>2. /\ key = "StatusPrefix" /\ UNCHANGED <<key, mem, deny>> /\ by' = "admin"
        /\ inForce' = [value |-> Sl!Effective(key, mem), over |-> FALSE]
    BY <1>4 DEF Sl!SetGlobalPrefix
  <2>3. ~Sl!Oversized(key, mem) /\ p \in Prefixes  BY <2>2 DEF Sl!Oversized, Prefixes
  <2>4. \A o : Gives(key, Sl!Written(key, mem, p), p, Sl!Effective(key, mem), o)  BY <1>0, <2>3, ReadBack
  <2>5. file'.prefix = p /\ file'.lines = Sl!Written(key, mem, p) /\ inForce'.value = Sl!Effective(key, mem)
    BY <2>1, <2>2
  <2>6. FileRight'  BY <2>2, <2>3, <2>4, <2>5, Zenon
  <2> QED  BY <1>0, <2>1, <2>2, <2>3, <2>6, Zenon DEF SettingInv
<1>5. CASE Sl!Save
  <2>1. Sl!Saved(mem) /\ by' = "znc" /\ UNCHANGED <<key, mem, deny, prefix>>  BY <1>5 DEF Sl!Save
  <2>2. FileRight'  BY <1>0, <2>1, SavedKeeps
  <2> QED  BY <1>0, <2>1, <2>2 DEF SettingInv
<1>6. CASE Sl!Restart
  <2>1. /\ mem' = Sl!Parsed(key, file.lines, file.prefix) /\ prefix' = file.prefix /\ by' = "restart"
        /\ UNCHANGED <<key, deny, file, inForce>>
    BY <1>6 DEF Sl!Restart
  <2>2. Legal(key, mem')  BY <1>0, <2>1 DEF Gives
  <2>3. FileRight'  BY <1>a, <2>1
  <2> QED  BY <1>0, <2>1, <2>2, <2>3 DEF SettingInv
<1> QED  BY <1>1, <1>2, <1>3, <1>4, <1>5, <1>6 DEF Sl!Next

LEMMA SettingStutter == SettingInv /\ UNCHANGED slVars => SettingInv'
  BY DEF SettingInv, slVars

LEMMA SettingRight == SettingInv => Sl!TypeOK /\ Sl!SurvivesRestart /\ Sl!CloneKeeps
<1> SUFFICES ASSUME SettingInv PROVE Sl!TypeOK /\ Sl!SurvivesRestart /\ Sl!CloneKeeps  OBVIOUS
<1>1. Sl!TypeOK  BY DEF SettingInv, Sl!TypeOK, Legal, Prefixes
<1>2. Sl!SurvivesRestart
  <2>1. by = "restart" => mem = Sl!Parsed(key, file.lines, file.prefix)  BY DEF SettingInv
  <2>2. Gives(key, file.lines, file.prefix, inForce.value, inForce.over)  BY DEF SettingInv
  <2> QED  BY <2>1, <2>2 DEF Sl!SurvivesRestart, Gives
<1>3. Sl!CloneKeeps  BY CloneRight DEF SettingInv
<1> QED  BY <1>1, <1>2, <1>3

LEMMA DenyStep ==
  ASSUME SettingInv, Sl!Next, by' = "self"
  PROVE  /\ key \in Sl!AdminOnly => mem' = mem
         /\ key \in Sl!Guarded /\ deny => \/ Sl!Same(Sl!Effective(key, mem'), Sl!Effective(key, mem))
                                          \/ key = "CTCPReply" /\ mem'.user = "empty"
         /\ key \in Sl!BufferSizes /\ mem'.user = "big" => mem.user = "big"
<1>1. Sl!Change(FALSE) \/ Sl!Submit(FALSE)
  BY Zenon DEF Sl!Next, Sl!Change, Sl!Submit, Sl!SetDeny, Sl!SetGlobalPrefix, Sl!Save, Sl!Restart
<1>2. PICK v \in Sl!Inputs(key) : mem' \in Sl!Changed(v, FALSE) \cup Sl!Submitted(v, FALSE)
  BY <1>1, Zenon DEF Sl!Change, Sl!Submit
<1>3. Legal(key, mem)  BY DEF SettingInv
<1> QED  BY <1>2, <1>3, ReservedKept, GuardedKept, BuffersKept, Zenon

LEMMA SettingPart ==
  ASSUME [PartsNext]_<<part, vars, wbVars, slVars, mhVars, ownVars>>
  PROVE  Sl!Next \/ UNCHANGED slVars
  BY DEF PartsNext

LEMMA SettingNext ==
  SettingInv /\ [PartsNext]_<<part, vars, wbVars, slVars, mhVars, ownVars>> => SettingInv'
  BY SettingPart, SettingStep, SettingStutter

\* No command and no form of a user who is no admin changes what is reserved to admins, or
\* what a Deny flag of his guards, or exceeds the limit of buffers.
THEOREM DeniedStaysDenied == PartsSpec => DenyHolds
<1>1. PartsInit => SettingInv  BY SettingInit DEF PartsInit
<1>2. SettingInv /\ [PartsNext]_<<part, vars, wbVars, slVars, mhVars, ownVars>> =>
        [by' = "self" =>
           /\ key \in Sl!AdminOnly => mem' = mem
           /\ key \in Sl!Guarded /\ deny => \/ Sl!Same(Sl!Effective(key, mem'), Sl!Effective(key, mem))
                                            \/ key = "CTCPReply" /\ mem'.user = "empty"
           /\ key \in Sl!BufferSizes /\ mem'.user = "big" => mem.user = "big"]_(Sl!vars)
  BY SettingPart, DenyStep DEF slVars, Sl!vars
<1> QED  BY <1>1, <1>2, SettingNext, PTL DEF PartsSpec, DenyHolds, Sl!DenyHolds

-----------------------------------------------------------------------------
(* awaystore: the module and its file *)

Msgs == {s \in Seq({"text", "empty"}) : Len(s) <= MaxMessages}
Passes == As!Phrases \cup {"none", "plain"}
Keepers == [loaded : BOOLEAN, away : BOOLEAN, pass : Passes, save : BOOLEAN, chans : BOOLEAN,
            auto : BOOLEAN, msgs : Msgs]
Stores == [key : Passes \cup {"torn"}, msgs : Msgs]

AwayStoreTypes == /\ irc \in {"none", "registering", "connected"} /\ attached \in BOOLEAN
                  /\ server \in BOOLEAN /\ foreign \in BOOLEAN /\ idle \in BOOLEAN
                  /\ keeper \in Keepers /\ store \in Stores
\* What came while away is in the buffer of a module that saves; otherwise in the file, as
\* long as the module does not write it.
AwayStored == /\ keeper.loaded /\ keeper.save => keeper.msgs = msgs
              /\ keeper.loaded /\ ~keeper.save /\ keeper.pass = "none" => store.msgs = msgs
              /\ ~keeper.loaded => store.msgs = msgs
\* The server has the away state of the module.
AwayTold == /\ irc # "connected" => ~server
            /\ ~foreign /\ keeper.loaded /\ irc = "connected" => keeper.away = server
            /\ ~foreign /\ ~keeper.loaded => ~server
AwayStoreInv == AwayStoreTypes /\ AwayStored /\ AwayTold

LEMMA KeeperFields ==
  ASSUME NEW x \in Keepers
  PROVE  /\ x.loaded \in BOOLEAN /\ x.away \in BOOLEAN /\ x.pass \in Passes /\ x.save \in BOOLEAN
         /\ x.msgs \in Msgs
  BY DEF Keepers

LEMMA KeeperAway ==
  ASSUME NEW x \in Keepers, NEW b \in BOOLEAN
  PROVE  LET y == [x EXCEPT !.away = b] IN
         /\ y \in Keepers /\ y.away = b /\ y.loaded = x.loaded /\ y.pass = x.pass
         /\ y.save = x.save /\ y.msgs = x.msgs
  BY DEF Keepers

LEMMA KeeperMsgs ==
  ASSUME NEW x \in Keepers, NEW s \in Msgs
  PROVE  LET y == [x EXCEPT !.msgs = s] IN
         /\ y \in Keepers /\ y.msgs = s /\ y.loaded = x.loaded /\ y.pass = x.pass
         /\ y.save = x.save /\ y.away = x.away
  BY DEF Keepers

LEMMA KeeperPass ==
  ASSUME NEW x \in Keepers, NEW p \in Passes
  PROVE  LET y == [x EXCEPT !.pass = p] IN
         /\ y \in Keepers /\ y.pass = p /\ y.loaded = x.loaded /\ y.msgs = x.msgs
         /\ y.save = x.save /\ y.away = x.away
  BY DEF Keepers

LEMMA KeeperAuto ==
  ASSUME NEW x \in Keepers, NEW b \in BOOLEAN
  PROVE  LET y == [x EXCEPT !.auto = b] IN
         /\ y \in Keepers /\ y.pass = x.pass /\ y.loaded = x.loaded /\ y.msgs = x.msgs
         /\ y.save = x.save /\ y.away = x.away
  BY DEF Keepers

LEMMA EmptyMsgs == <<>> \in Msgs
  BY KeptAssumption DEF Msgs

LEMMA GoneFacts == /\ As!Gone \in Keepers /\ As!Gone.loaded = FALSE /\ As!Gone.away = FALSE
                   /\ As!Gone.pass = "none" /\ As!Gone.msgs = <<>>
  BY EmptyMsgs DEF As!Gone, Keepers, Passes

LEMMA NoFileFacts == As!NoFile \in Stores /\ As!NoFile.key = "none" /\ As!NoFile.msgs = <<>>
  BY EmptyMsgs DEF As!NoFile, Stores, Passes

\* The module as OnLoad makes it.
Loaded(s, c, a) == [As!Gone EXCEPT !.loaded = TRUE, !.save = s, !.chans = c, !.auto = a]
Opened(x, p, l) == [x EXCEPT !.pass = p, !.msgs = l]
LEMMA LoadedKeeper ==
  ASSUME NEW s \in BOOLEAN, NEW c \in BOOLEAN, NEW a \in BOOLEAN
  PROVE  LET x == Loaded(s, c, a)
         IN  /\ x \in Keepers /\ x.loaded /\ (x.save <=> s) /\ ~x.away /\ x.pass = "none" /\ x.msgs = <<>>
<1> DEFINE t == TRUE
           g1 == [As!Gone EXCEPT !.loaded = t]
           g2 == [g1 EXCEPT !.save = s]
           g3 == [g2 EXCEPT !.chans = c]
           x == [g3 EXCEPT !.auto = a]
<1>0. t \in BOOLEAN  OBVIOUS
<1>1. Loaded(s, c, a) = x  BY DEF Loaded
<1> HIDE DEF t
<1>3. /\ g1 \in Keepers /\ g1.loaded = t /\ g1.away = FALSE /\ g1.pass = "none" /\ g1.msgs = <<>>
  BY <1>0, GoneFacts DEF Keepers
<1> HIDE DEF g1
<1>4. /\ g2 \in Keepers /\ g2.loaded = t /\ g2.save = s /\ g2.away = FALSE /\ g2.pass = "none" /\ g2.msgs = <<>>
  BY <1>3 DEF Keepers
<1> HIDE DEF g2
<1>5. /\ g3 \in Keepers /\ g3.loaded = t /\ g3.save = s /\ g3.away = FALSE /\ g3.pass = "none" /\ g3.msgs = <<>>
  BY <1>4 DEF Keepers
<1> HIDE DEF g3
<1>6. /\ x \in Keepers /\ x.loaded = t /\ x.save = s /\ x.away = FALSE /\ x.pass = "none" /\ x.msgs = <<>>
  BY <1>5, KeeperAuto
<1> HIDE DEF x
<1> QED  BY <1>1, <1>6 DEF t

LEMMA OpenedKeeper ==
  ASSUME NEW x \in Keepers, NEW p \in Passes, NEW l \in Msgs
  PROVE  LET y == Opened(x, p, l)
         IN  /\ y \in Keepers /\ y.pass = p /\ y.msgs = l
             /\ y.loaded = x.loaded /\ y.save = x.save /\ y.away = x.away
<1> DEFINE y1 == [x EXCEPT !.pass = p]
           y == [y1 EXCEPT !.msgs = l]
<1>1. Opened(x, p, l) = y  BY DEF Opened
<1>2. /\ y1 \in Keepers /\ y1.pass = p /\ y1.loaded = x.loaded /\ y1.save = x.save /\ y1.away = x.away
  BY KeeperPass
<1> HIDE DEF y1
<1>3. /\ y \in Keepers /\ y.pass = p /\ y.msgs = l /\ y.loaded = y1.loaded /\ y.save = y1.save /\ y.away = y1.away
  BY <1>2, KeeperMsgs
<1> QED  BY <1>1, <1>2, <1>3

LEMMA MsgsAppend ==
  ASSUME NEW s \in Msgs, NEW t \in {"text", "empty"}, Len(s) < MaxMessages PROVE Append(s, t) \in Msgs
<1>1. s \in Seq({"text", "empty"}) /\ Len(s) \in Nat  BY DEF Msgs
<1>2. Append(s, t) \in Seq({"text", "empty"}) /\ Len(Append(s, t)) = Len(s) + 1  BY <1>1
<1> QED  BY <1>1, <1>2, KeptAssumption DEF Msgs

LEMMA MsgsRemove ==
  ASSUME NEW s \in Msgs, NEW i \in DOMAIN s PROVE As!RemoveAt(s, i) \in Msgs
<1> DEFINE S == {"text", "empty"}
           u == SubSeq(s, 1, i - 1)
           v == SubSeq(s, i + 1, Len(s))
<1>1. s \in Seq(S) /\ Len(s) \in Nat /\ Len(s) <= MaxMessages /\ i \in 1..Len(s)  BY DEF Msgs
<1> HIDE DEF S
<1>2. u \in Seq(S) /\ v \in Seq(S) /\ Len(u) = i - 1 /\ Len(v) = Len(s) - i
  <2>1. \A k \in 1..(i - 1) : s[k] \in S  BY <1>1
  <2>2. \A k \in (i + 1)..Len(s) : s[k] \in S  BY <1>1
  <2>3. 1 \in Int /\ i - 1 \in Int /\ i + 1 \in Int /\ Len(s) \in Int  BY <1>1
  <2>4. u \in Seq(S) /\ Len(u) = IF 1 <= i - 1 THEN (i - 1) - 1 + 1 ELSE 0  BY <2>1, <2>3, SubSeqProperties
  <2>5. v \in Seq(S) /\ Len(v) = IF i + 1 <= Len(s) THEN Len(s) - (i + 1) + 1 ELSE 0
    BY <2>2, <2>3, SubSeqProperties
  <2> QED  BY <1>1, <2>4, <2>5
<1>3. As!RemoveAt(s, i) = u \o v  BY DEF As!RemoveAt
<1> HIDE DEF u, v
<1>4. u \o v \in Seq(S) /\ Len(u \o v) = Len(u) + Len(v)  BY <1>2, ConcatProperties, Zenon
<1>5. Len(u \o v) <= MaxMessages
  <2>1. MaxMessages \in Nat /\ Len(s) \in Nat /\ Len(s) <= MaxMessages /\ i \in 1..Len(s)
    BY <1>1, KeptAssumption
  <2>2. Len(u \o v) = (i - 1) + (Len(s) - i)  BY <1>2, <1>4, Zenon
  <2>3. (i - 1) + (Len(s) - i) <= MaxMessages  BY <2>1
  <2> QED  BY <2>2, <2>3, Zenon
<1> QED  BY <1>3, <1>4, <1>5 DEF Msgs, S

LEMMA AwayCardinality == ASSUME NEW T PROVE As!Cardinality(T) = Cardinality(T)
  BY DEF As!Cardinality, Cardinality

LEMMA MsgsShown ==
  ASSUME NEW s \in Msgs
  PROVE  [i \in 1..As!Cardinality({j \in DOMAIN s : s[j] = "text"}) |-> "text"] \in Msgs
<1> DEFINE T == {j \in DOMAIN s : s[j] = "text"}
           n == Cardinality(T)
<1>1. Len(s) \in Nat /\ Len(s) <= MaxMessages /\ DOMAIN s = 1..Len(s)  BY DEF Msgs
<1>2. IsFiniteSet(1..Len(s)) /\ Cardinality(1..Len(s)) = Len(s)
  <2>1. 1 \in Int /\ Len(s) \in Int  BY <1>1
  <2>2. IsFiniteSet(1..Len(s)) /\ Cardinality(1..Len(s)) = IF 1 > Len(s) THEN 0 ELSE Len(s) - 1 + 1
    BY <2>1, FS_Interval
  <2> QED  BY <1>1, <2>2
<1>3. T \subseteq 1..Len(s)  BY <1>1
<1>4. n \in Nat /\ n <= Cardinality(1..Len(s))  BY <1>2, <1>3, FS_Subset, FS_CardinalityType
<1>5. n <= MaxMessages  BY <1>1, <1>2, <1>4, KeptAssumption
<1> HIDE DEF n
<1>6. [i \in 1..n |-> "text"] \in Seq({"text", "empty"}) /\ Len([i \in 1..n |-> "text"]) = n  BY <1>4
<1>7. As!Cardinality(T) = n  BY AwayCardinality DEF n
<1> QED  BY <1>5, <1>6, <1>7, Zenon DEF Msgs

-----------------------------------------------------------------------------
(* The steps of awaystore *)

LEMMA SavedStore ==
  ASSUME NEW x \in Keepers, store \in Stores
  PROVE  LET f == As!SaveBufferToDisk(x) IN
         /\ f \in Stores
         /\ x.pass = "none" => f = store
         /\ x.pass # "none" => f.msgs = x.msgs
<1>1. [key |-> x.pass, msgs |-> x.msgs] \in Stores  BY KeeperFields DEF Stores
<1>2. As!SaveBufferToDisk(x) = IF x.pass = "none" THEN store ELSE [key |-> x.pass, msgs |-> x.msgs]
  BY DEF As!SaveBufferToDisk
<1>3. [key |-> x.pass, msgs |-> x.msgs].msgs = x.msgs  OBVIOUS
<1> QED  BY <1>1, <1>2, <1>3

LEMMA MsgsCut == ASSUME NEW s \in Msgs, NEW n \in 0..Len(s) PROVE SubSeq(s, 1, n) \in Msgs
<1> DEFINE S == {"text", "empty"}
           u == SubSeq(s, 1, n)
<1>1. s \in Seq(S) /\ Len(s) \in Nat /\ Len(s) <= MaxMessages /\ n \in Nat /\ n <= Len(s)  BY DEF Msgs
<1> HIDE DEF S
<1>2. \A k \in 1..n : s[k] \in S  BY <1>1
<1>3. 1 \in Int /\ n \in Int  BY <1>1
<1>4. u \in Seq(S) /\ Len(u) = IF 1 <= n THEN n - 1 + 1 ELSE 0  BY <1>2, <1>3, SubSeqProperties
<1>5. Len(u) <= MaxMessages  BY <1>1, <1>4, KeptAssumption
<1> QED  BY <1>4, <1>5 DEF Msgs, S

\* Whatever is left of a file that could not be written, a module without a key leaves it.
LEMMA FailedStore ==
  ASSUME NEW x \in Keepers, store \in Stores, NEW f \in As!FailedSave(x)
  PROVE  f \in Stores /\ x.pass # "none"
<1>1. x.pass # "none" /\ x.pass \in Passes /\ x.msgs \in Msgs  BY KeeperFields DEF As!FailedSave
<1>2. \/ f = store \/ f = As!NoFile \/ f = [key |-> "torn", msgs |-> <<>>]
      \/ \E n \in 0..Len(x.msgs) : f = [key |-> x.pass, msgs |-> SubSeq(x.msgs, 1, n)]
  BY DEF As!FailedSave
<1>3. [key |-> "torn", msgs |-> <<>>] \in Stores  BY EmptyMsgs DEF Stores
<1>4. \A n \in 0..Len(x.msgs) : [key |-> x.pass, msgs |-> SubSeq(x.msgs, 1, n)] \in Stores
  BY <1>1, MsgsCut DEF Stores
<1> QED  BY <1>1, <1>2, <1>3, <1>4, NoFileFacts

LEMMA Written ==
  ASSUME NEW x \in Keepers, store \in Stores, As!Save(x)
  PROVE  store' \in Stores /\ (x.pass = "none" => store' = store)
  BY SavedStore, FailedStore DEF As!Save

LEMMA AwayStoreInit == As!Init => AwayStoreInv
<1> SUFFICES ASSUME As!Init PROVE AwayStoreInv  OBVIOUS
<1>1. /\ irc = "none" /\ attached = FALSE /\ server = FALSE /\ keeper = As!Gone /\ store = As!NoFile
      /\ idle = FALSE /\ msgs = <<>> /\ foreign = FALSE
  BY DEF As!Init
<1> QED  BY <1>1, GoneFacts, NoFileFacts, Zenon DEF AwayStoreInv, AwayStoreTypes, AwayStored, AwayTold

\* Away(bForce) and Back on what the module knows: nothing but the two sides of the away state.
LEMMA AwayKeeps ==
  ASSUME AwayStoreInv, NEW b \in BOOLEAN, keeper' = [keeper EXCEPT !.away = b], As!Put(b), keeper.loaded,
         irc' \in {"none", "registering", "connected"}, irc' # "connected" => irc = irc',
         attached' \in BOOLEAN, idle' \in BOOLEAN,
         As!Save(keeper) \/ store' = store, UNCHANGED msgs
  PROVE  AwayStoreInv'
<1>1. keeper \in Keepers /\ store \in Stores /\ server \in BOOLEAN /\ foreign \in BOOLEAN
  BY DEF AwayStoreInv, AwayStoreTypes
<1>2. /\ keeper' \in Keepers /\ keeper'.away = b /\ keeper'.loaded = keeper.loaded
      /\ keeper'.pass = keeper.pass /\ keeper'.save = keeper.save /\ keeper'.msgs = keeper.msgs
  BY <1>1, KeeperAway, Zenon
<1>3. server' \in BOOLEAN /\ foreign' \in BOOLEAN /\ (irc' = "connected" => server' = b)
      /\ (irc' # "connected" => server' = server)
  BY <1>1, Zenon DEF As!Put
<1>4. store' \in Stores /\ (keeper.pass = "none" => store' = store)  BY <1>1, Written
<1>5. AwayStoreTypes'  BY <1>1, <1>2, <1>3, <1>4 DEF AwayStoreTypes
<1>6. AwayStored'  BY <1>2, <1>4 DEF AwayStored, AwayStoreInv
<1>7. AwayTold'  BY <1>2, <1>3 DEF AwayTold, AwayStoreInv
<1> QED  BY <1>5, <1>6, <1>7 DEF AwayStoreInv

\* What leaves the away state alone.
LEMMA QuietKeeps ==
  ASSUME AwayStoreInv, UNCHANGED <<irc, server, foreign, keeper, msgs>>, attached' \in BOOLEAN, idle' \in BOOLEAN,
         (As!Save(keeper) /\ keeper.loaded) \/ store' = store
  PROVE  AwayStoreInv'
<1>1. keeper \in Keepers /\ store \in Stores /\ AwayStored /\ AwayStoreTypes /\ AwayTold
  BY DEF AwayStoreInv, AwayStoreTypes
<1>2. store' \in Stores /\ (keeper.pass = "none" => store' = store) /\ (~keeper.loaded => store' = store)
  BY <1>1, Written
<1>3. AwayStoreTypes'  BY <1>1, <1>2 DEF AwayStoreTypes
<1>4. AwayStored'  BY <1>1, <1>2 DEF AwayStored
<1>5. AwayTold'  BY <1>1 DEF AwayTold
<1> QED  BY <1>3, <1>4, <1>5 DEF AwayStoreInv

\* What changes the buffer.
LEMMA BufferKeeps ==
  ASSUME AwayStoreInv, keeper.loaded, NEW s \in Msgs, keeper' = [keeper EXCEPT !.msgs = s],
         UNCHANGED <<irc, attached, server, foreign>>, idle' \in BOOLEAN,
         keeper.save => msgs' = s, ~keeper.save => msgs' = msgs,
         store' = store \/ As!Save(keeper')
  PROVE  AwayStoreInv'
<1>1. keeper \in Keepers /\ store \in Stores /\ AwayStored /\ AwayStoreTypes /\ AwayTold
  BY DEF AwayStoreInv, AwayStoreTypes
<1>2. /\ keeper' \in Keepers /\ keeper'.msgs = s /\ keeper'.loaded = keeper.loaded
      /\ keeper'.pass = keeper.pass /\ keeper'.save = keeper.save /\ keeper'.away = keeper.away
  BY <1>1, KeeperMsgs, Zenon
<1>3. store' \in Stores /\ (keeper.pass = "none" => store' = store)
  <2> DEFINE x == keeper'
  <2>1. x \in Keepers /\ x.pass = keeper.pass /\ (store' = store \/ As!Save(x))  BY <1>2
  <2> HIDE DEF x
  <2> QED  BY <1>1, <2>1, Written
<1>4. AwayStoreTypes'  BY <1>1, <1>2, <1>3 DEF AwayStoreTypes
<1>5. AwayStored'  BY <1>1, <1>2, <1>3 DEF AwayStored
<1>6. AwayTold'  BY <1>1, <1>2 DEF AwayTold
<1> QED  BY <1>4, <1>5, <1>6 DEF AwayStoreInv

LEMMA OnLoadKeeps == ASSUME AwayStoreInv, As!OnLoad PROVE AwayStoreInv'
<1>0. AwayStoreTypes /\ AwayStored /\ AwayTold /\ ~keeper.loaded /\ idle' = FALSE
      /\ UNCHANGED <<irc, attached, server, store, foreign>>
  BY DEF As!OnLoad, As!world, AwayStoreInv
<1>1. store.msgs \in Msgs  BY <1>0 DEF AwayStoreTypes, Stores
<1>2. PICK s \in BOOLEAN, c \in BOOLEAN, a \in BOOLEAN, p \in As!Phrases :
        LET x == [As!Gone EXCEPT !.loaded = TRUE, !.save = s, !.chans = c, !.auto = a]
        IN  \/ /\ UNCHANGED msgs
               /\ IF ~s THEN keeper' = x
                  ELSE IF As!DecryptMessages(p) THEN keeper' = [x EXCEPT !.pass = p, !.msgs = store.msgs]
                  ELSE UNCHANGED keeper
            \/ s /\ As!Unreadable /\ keeper' = [x EXCEPT !.pass = p] /\ msgs' = <<>>
  BY Zenon DEF As!OnLoad
<1> DEFINE x == Loaded(s, c, a)
           y == Opened(x, p, store.msgs)
           z == [x EXCEPT !.pass = p]
<1>3. p \in Passes /\ p # "none"  BY DEF Passes, As!Phrases
<1>4. x \in Keepers /\ x.loaded /\ (x.save <=> s) /\ ~x.away /\ x.pass = "none" /\ x.msgs = <<>>
  BY LoadedKeeper
<1>9. /\ z \in Keepers /\ z.pass = p /\ z.msgs = <<>>
      /\ z.loaded = x.loaded /\ z.save = x.save /\ z.away = x.away
  <2>1. x \in Keepers /\ x.msgs = <<>>  BY <1>4
  <2> HIDE DEF x
  <2> QED  BY <1>3, <2>1, KeeperPass
<1>8. /\ y \in Keepers /\ y.pass = p /\ y.msgs = store.msgs
      /\ y.loaded = x.loaded /\ y.save = x.save /\ y.away = x.away
  <2>1. x \in Keepers  BY <1>4
  <2> HIDE DEF x
  <2> QED  BY <1>1, <1>3, <2>1, OpenedKeeper
<1>5. \/ ~s /\ keeper' = x /\ msgs' = msgs
      \/ s /\ keeper' = y /\ msgs' = msgs
      \/ s /\ keeper' = z /\ msgs' = <<>>
      \/ UNCHANGED <<keeper, msgs>>
  BY <1>2 DEF Loaded, Opened
<1> HIDE DEF x, y, z
<1>6. CASE UNCHANGED <<keeper, msgs>>
  BY <1>0, <1>6, Zenon DEF AwayStoreInv, AwayStoreTypes, AwayStored, AwayTold
<1>7. CASE \/ ~s /\ keeper' = x /\ msgs' = msgs
           \/ s /\ keeper' = y /\ msgs' = msgs
           \/ s /\ keeper' = z /\ msgs' = <<>>
  <2>1. /\ keeper' \in Keepers /\ keeper'.loaded /\ ~keeper'.away /\ (keeper'.save <=> s)
        /\ s => \/ keeper'.msgs = store.msgs /\ msgs' = msgs
                \/ keeper'.msgs = <<>> /\ msgs' = <<>>
        /\ ~s => msgs' = msgs
    BY <1>4, <1>7, <1>8, <1>9, Zenon
  <2>2. AwayStoreTypes'  BY <1>0, <2>1, Zenon DEF AwayStoreTypes
  <2>3. AwayStored'  BY <1>0, <1>3, <2>1 DEF AwayStored
  <2>4. server \in BOOLEAN /\ (irc # "connected" => ~server) /\ (~foreign => ~server)
    BY <1>0 DEF AwayTold, AwayStoreTypes
  <2>5. keeper'.away = FALSE
    <3> DEFINE k == keeper'
    <3>1. k \in Keepers /\ ~k.away  BY <2>1
    <3> HIDE DEF k
    <3>2. k.away = FALSE  BY <3>1, KeeperFields
    <3> QED  BY <3>2 DEF k
  <2>7. ~foreign => server = FALSE  BY <2>4
  <2>6. AwayTold'  BY <1>0, <2>1, <2>4, <2>5, <2>7, Zenon DEF AwayTold
  <2> QED  BY <2>2, <2>3, <2>6 DEF AwayStoreInv
<1> QED  BY <1>5, <1>6, <1>7

LEMMA DestroyKeeps == ASSUME AwayStoreInv, As!Destroy \/ As!Die PROVE AwayStoreInv'
<1>0. AwayStoreTypes /\ AwayStored /\ AwayTold /\ keeper.loaded /\ keeper' = As!Gone
      /\ keeper \in Keepers /\ store \in Stores
  BY DEF As!Destroy, As!Die, AwayStoreInv, AwayStoreTypes
<1>1. CASE As!Destroy
  <2>1. foreign' = server /\ UNCHANGED <<irc, attached, server, idle>>  BY <1>1 DEF As!Destroy, As!world
  <2>2. \/ store' = As!SaveBufferToDisk(keeper) /\ msgs' = IF As!Repassed(keeper) THEN store'.msgs ELSE msgs
        \/ store' \in As!FailedSave(keeper) /\ msgs' = store'.msgs
    BY <1>1 DEF As!Destroy
  <2>3. store' \in Stores  BY <1>0, <2>2, SavedStore, FailedStore
  <2>4. store'.msgs = msgs'
    <3>1. CASE msgs' = store'.msgs  BY <3>1
    <3>2. CASE store' = As!SaveBufferToDisk(keeper) /\ ~As!Repassed(keeper) /\ msgs' = msgs
      <4>1. (keeper.save /\ keeper.pass # "none") \/ (~keeper.save /\ keeper.pass = "none")
        BY <1>0, <3>2, KeeperFields DEF As!Repassed
      <4> QED  BY <1>0, <3>2, <4>1, SavedStore DEF AwayStored
    <3> QED  BY <2>2, <3>1, <3>2
  <2>5. AwayStoreTypes'  BY <1>0, <2>1, <2>3, GoneFacts DEF AwayStoreTypes
  <2>6. AwayStored'  BY <1>0, <2>4, GoneFacts DEF AwayStored
  <2>7. AwayTold'  BY <1>0, <2>1, GoneFacts DEF AwayTold, AwayStoreTypes
  <2> QED  BY <2>5, <2>6, <2>7 DEF AwayStoreInv
<1>2. CASE As!Die
  <2>1. irc' = "none" /\ attached' = FALSE /\ server' = FALSE /\ foreign' = FALSE /\ idle' = FALSE
    BY <1>2 DEF As!Die
  <2>2. store' \in {store} \cup As!FailedSave(keeper) /\ msgs' = store'.msgs  BY <1>2 DEF As!Die
  <2>3. store' \in Stores  BY <1>0, <2>2, FailedStore
  <2>4. AwayStoreTypes'  BY <1>0, <2>1, <2>3, GoneFacts, Zenon DEF AwayStoreTypes
  <2>5. AwayStored'  BY <1>0, <2>2, GoneFacts DEF AwayStored
  <2>6. AwayTold'  BY <1>0, <2>1, GoneFacts DEF AwayTold
  <2> QED  BY <2>4, <2>5, <2>6 DEF AwayStoreInv
<1> QED  BY <1>1, <1>2

LEMMA BufferCommandsKeep ==
  ASSUME AwayStoreInv, As!OnMsg \/ As!DeleteCommand \/ As!ShowCommand PROVE AwayStoreInv'
<1>0. keeper \in Keepers /\ keeper.msgs \in Msgs /\ idle \in BOOLEAN /\ attached \in BOOLEAN
  BY KeeperFields DEF AwayStoreInv, AwayStoreTypes
<1>1. CASE As!OnMsg
  <2>1. keeper.loaded /\ Len(keeper.msgs) < MaxMessages /\ UNCHANGED <<irc, attached, server, store, idle, foreign>>
        /\ \E t \in {"text", "empty"} : As!AddMessage(t)
    BY <1>1 DEF As!OnMsg, As!world
  <2>2. PICK t \in {"text", "empty"} : As!AddMessage(t)  BY <2>1
  <2>3. CASE keeper.away /\ keeper.save
    <3>1. keeper' = [keeper EXCEPT !.msgs = Append(keeper.msgs, t)] /\ msgs' = Append(msgs, t)
      BY <2>2, <2>3 DEF As!AddMessage
    <3> DEFINE s == Append(keeper.msgs, t)
    <3>2. s \in Msgs  BY <1>0, <2>1, MsgsAppend
    <3>3. msgs = keeper.msgs  BY <2>1, <2>3 DEF AwayStoreInv, AwayStored
    <3>4. msgs' = s  BY <3>1, <3>3
    <3>5. keeper' = [keeper EXCEPT !.msgs = s]  BY <3>1
    <3> HIDE DEF s
    <3> QED  BY <1>0, <2>1, <2>3, <3>2, <3>4, <3>5, BufferKeeps
  <2>4. CASE ~(keeper.away /\ keeper.save)
    <3>1. UNCHANGED <<keeper, msgs>>  BY <2>2, <2>4 DEF As!AddMessage
    <3> QED  BY <1>0, <2>1, <3>1, QuietKeeps
  <2> QED  BY <2>3, <2>4
<1>2. CASE As!DeleteCommand
  <2>1. keeper.loaded /\ UNCHANGED <<irc, attached, server, idle, foreign>>
        /\ msgs' = (IF keeper.save THEN keeper'.msgs ELSE msgs)
    BY <1>2 DEF As!DeleteCommand, As!world
  <2>2. \/ keeper' = [keeper EXCEPT !.msgs = <<>>] /\ UNCHANGED store
        \/ \E i \in DOMAIN keeper.msgs : /\ keeper' = [keeper EXCEPT !.msgs = As!RemoveAt(keeper.msgs, i)]
                                         /\ As!Save(keeper')
    BY <1>2 DEF As!DeleteCommand
  <2>3. PICK s \in Msgs : keeper' = [keeper EXCEPT !.msgs = s] /\ (store' = store \/ As!Save(keeper'))
    BY <1>0, <2>2, EmptyMsgs, MsgsRemove
  <2>4. keeper'.msgs = s  BY <1>0, <2>3, KeeperMsgs
  <2>5. (keeper.save => msgs' = s) /\ (~keeper.save => msgs' = msgs)  BY <2>1, <2>4
  <2> QED  BY <1>0, <2>1, <2>3, <2>5, BufferKeeps
<1>3. CASE As!ShowCommand
  <2> DEFINE s == [i \in 1..As!Cardinality({j \in DOMAIN keeper.msgs : keeper.msgs[j] = "text"}) |-> "text"]
  <2>0. keeper' = [keeper EXCEPT !.msgs = s]  BY <1>3, Zenon DEF As!ShowCommand
  <2>1. keeper.loaded /\ UNCHANGED <<irc, attached, server, store, idle, foreign>>
        /\ keeper' = [keeper EXCEPT !.msgs = s] /\ msgs' = (IF keeper.save THEN keeper'.msgs ELSE msgs)
    BY <1>3, <2>0, Zenon DEF As!ShowCommand, As!world
  <2>2. s \in Msgs  BY <1>0, MsgsShown
  <2> HIDE DEF s
  <2>4. keeper'.msgs = s  BY <1>0, <2>1, <2>2, KeeperMsgs
  <2>5. (keeper.save => msgs' = s) /\ (~keeper.save => msgs' = msgs)  BY <2>1, <2>4
  <2> QED  BY <1>0, <2>1, <2>2, <2>5, BufferKeeps
<1> QED  BY <1>1, <1>2, <1>3

LEMMA AwayCommandsKeep ==
  ASSUME AwayStoreInv,
         \/ As!OnUser \/ As!AwayCommand \/ As!BackCommand \/ As!RunJob
         \/ As!OnIRCConnected \/ As!OnClientLogin \/ As!OnClientDisconnect \/ As!ClientJumps
  PROVE  AwayStoreInv'
<1>0. /\ irc \in {"none", "registering", "connected"} /\ attached \in BOOLEAN /\ idle \in BOOLEAN
      /\ keeper \in Keepers
  BY DEF AwayStoreInv, AwayStoreTypes
<1> DEFINE Acts(b) == keeper' = [keeper EXCEPT !.away = b] /\ As!Put(b)
           Rests == UNCHANGED <<keeper, server, foreign>>
<1>1. /\ \A f \in BOOLEAN : As!Away(f) => Acts(TRUE) \/ Rests
      /\ As!Away(TRUE) => Acts(TRUE)
      /\ As!Back => Acts(FALSE)
  BY Zenon DEF As!Away, As!Back
<1>2. CASE As!OnIRCConnected
  <2>1. irc = "registering" /\ irc' = "connected" /\ UNCHANGED <<attached, store, idle, msgs>>
        /\ As!Hook(IF keeper.away THEN As!Away(TRUE) ELSE As!Back)
    BY <1>2, Zenon DEF As!OnIRCConnected
  <2>2. CASE keeper.loaded
    <3>1. Acts(TRUE) \/ Acts(FALSE)  BY <1>1, <2>1, <2>2, Zenon DEF As!Hook
    <3> QED  BY <1>0, <2>1, <2>2, <3>1, AwayKeeps, Zenon
  <2>3. CASE ~keeper.loaded
    <3>1. UNCHANGED <<keeper, server, foreign>>  BY <2>1, <2>3 DEF As!Hook
    <3> QED  BY <2>1, <2>3, <3>1 DEF AwayStoreInv, AwayStoreTypes, AwayStored, AwayTold
  <2> QED  BY <2>2, <2>3
<1>3. CASE ~As!OnIRCConnected
  <2>1. /\ irc' = irc /\ attached' \in BOOLEAN /\ idle' \in BOOLEAN /\ UNCHANGED msgs
        /\ store' = store \/ (keeper.loaded /\ As!Save(keeper))
    BY <1>0, <1>3, Zenon DEF As!OnUser, As!AwayCommand, As!BackCommand, As!RunJob, As!OnClientLogin,
                             As!OnClientDisconnect, As!ClientJumps, As!world
  <2>2. (keeper.loaded /\ (Acts(TRUE) \/ Acts(FALSE))) \/ Rests
    BY <1>1, <1>3, Zenon DEF As!OnUser, As!AwayCommand, As!BackCommand, As!RunJob, As!OnClientLogin,
                             As!OnClientDisconnect, As!ClientJumps, As!Hook
  <2>3. CASE Rests  BY <2>1, <2>3, QuietKeeps
  <2>4. CASE keeper.loaded /\ (Acts(TRUE) \/ Acts(FALSE))  BY <1>0, <2>1, <2>4, AwayKeeps, Zenon
  <2> QED  BY <2>2, <2>3, <2>4, Zenon
<1> QED  BY <1>2, <1>3

LEMMA AwayStoreStep == ASSUME AwayStoreInv, As!Next PROVE AwayStoreInv'
<1>0. AwayStoreTypes /\ AwayStored /\ AwayTold /\ keeper \in Keepers /\ attached \in BOOLEAN /\ idle \in BOOLEAN
  BY DEF AwayStoreInv, AwayStoreTypes
<1>1. CASE As!SaveCommand \/ As!Idle
  <2>1. UNCHANGED <<irc, server, foreign, keeper, msgs>> /\ attached' \in BOOLEAN /\ idle' \in BOOLEAN
        /\ ((As!Save(keeper) /\ keeper.loaded) \/ store' = store)
    BY <1>0, <1>1, Zenon DEF As!SaveCommand, As!Idle, As!world, As!ghosts
  <2> QED  BY <2>1, QuietKeeps
<1>2. CASE As!PassCommand
  <2>1. PICK p \in {"plain", "none"} : keeper' = [keeper EXCEPT !.pass = p]  BY <1>2 DEF As!PassCommand
  <2>2. keeper.loaded /\ msgs' = (IF keeper.save THEN msgs ELSE store.msgs)
        /\ UNCHANGED <<irc, attached, server, store, idle, foreign>>
    BY <1>2 DEF As!PassCommand, As!world
  <2>3. p \in Passes  BY DEF Passes
  <2>4. /\ keeper' \in Keepers /\ keeper'.loaded = keeper.loaded /\ keeper'.away = keeper.away
        /\ keeper'.msgs = keeper.msgs /\ keeper'.save = keeper.save
    BY <1>0, <2>1, <2>3, KeeperPass
  <2> QED  BY <1>0, <2>2, <2>4 DEF AwayStoreInv, AwayStoreTypes, AwayStored, AwayTold
<1>3. CASE As!SetAwayTime
  <2>1. PICK on \in BOOLEAN : keeper' = [keeper EXCEPT !.auto = on]  BY <1>3 DEF As!SetAwayTime
  <2>2. UNCHANGED <<irc, attached, server, store, idle, msgs, foreign>>
    BY <1>3 DEF As!SetAwayTime, As!world, As!ghosts
  <2>3. /\ keeper' \in Keepers /\ keeper'.loaded = keeper.loaded /\ keeper'.away = keeper.away
        /\ keeper'.pass = keeper.pass /\ keeper'.msgs = keeper.msgs /\ keeper'.save = keeper.save
    BY <1>0, <2>1, KeeperAuto
  <2> QED  BY <1>0, <2>2, <2>3 DEF AwayStoreInv, AwayStoreTypes, AwayStored, AwayTold
<1>4. CASE As!Connect \/ As!Disconnect
  <2>1. irc' \in {"none", "registering"} /\ server' = FALSE /\ foreign' = FALSE
        /\ UNCHANGED <<attached, keeper, store, idle, msgs>>
    BY <1>4 DEF As!Connect, As!Disconnect
  <2> QED  BY <1>0, <2>1, Zenon DEF AwayStoreInv, AwayStoreTypes, AwayStored, AwayTold
<1>5. CASE As!ClientAway
  <2>1. irc = "connected" /\ server' \in BOOLEAN /\ foreign' = TRUE /\ UNCHANGED <<irc, attached, keeper, store, idle, msgs>>
    BY <1>5 DEF As!ClientAway, As!world
  <2> QED  BY <1>0, <2>1 DEF AwayStoreInv, AwayStoreTypes, AwayStored, AwayTold
<1> QED  BY <1>1, <1>2, <1>3, <1>4, <1>5, OnLoadKeeps, DestroyKeeps, BufferCommandsKeep, AwayCommandsKeep DEF As!Next

LEMMA AwayStoreStutter == AwayStoreInv /\ UNCHANGED asVars => AwayStoreInv'
  BY DEF AwayStoreInv, AwayStoreTypes, AwayStored, AwayTold, asVars

LEMMA AwayStoreRight == AwayStoreInv => As!TypeOK /\ As!MessagesKept
<1> SUFFICES ASSUME AwayStoreInv PROVE As!TypeOK /\ As!MessagesKept  OBVIOUS
<1>1. keeper \in Keepers /\ store \in Stores /\ irc \in {"none", "registering", "connected"}
  BY DEF AwayStoreInv, AwayStoreTypes
<1>2. keeper.pass \in Passes /\ keeper.msgs \in Msgs /\ store.msgs \in Msgs  BY <1>1, KeeperFields DEF Stores
<1>3. As!TypeOK  BY <1>1, <1>2 DEF As!TypeOK, Passes, Msgs
<1>4. As!MessagesKept  BY DEF AwayStoreInv, AwayStored, AwayTold, As!MessagesKept
<1> QED  BY <1>3, <1>4

LEMMA AwayStoreNext ==
  AwayStoreInv /\ [PartsNext]_<<part, vars, wbVars, slVars, mhVars, ownVars>> => AwayStoreInv'
<1>1. ASSUME PartsNext PROVE As!Next \/ UNCHANGED asVars
  BY <1>1 DEF PartsNext, ownVars
<1> QED  BY <1>1, AwayStoreStep, AwayStoreStutter DEF ownVars

-----------------------------------------------------------------------------
(* Sequences and their sets *)

LEMMA RemovedFacts ==
  ASSUME NEW S, NEW s \in Seq(S), NEW i \in 1..Len(s)
  PROVE  LET u == SubSeq(s, 1, i - 1) \o SubSeq(s, i + 1, Len(s))
         IN  /\ u \in Seq(S) /\ Len(u) = Len(s) - 1
             /\ \A k \in 1..Len(s) - 1 : u[k] = IF k < i THEN s[k] ELSE s[k + 1]
<1> DEFINE a == SubSeq(s, 1, i - 1)
           b == SubSeq(s, i + 1, Len(s))
           n == Len(s)
           u == a \o b
<1>0. n \in Nat /\ i \in Nat /\ 1 <= i /\ i <= n  BY LenProperties
<1>1. a \in Seq(S) /\ Len(a) = i - 1 /\ \A k \in 1..(i - 1) : a[k] = s[k]
  BY <1>0, SubSeqProperties
<1>2. b \in Seq(S) /\ Len(b) = n - i /\ \A k \in 1..(n - i) : b[k] = s[i + k]
  BY <1>0, SubSeqProperties
<1> HIDE DEF a, b
<1>3. u \in Seq(S) /\ Len(u) = n - 1
  <2>1. u \in Seq(S) /\ Len(u) = Len(a) + Len(b)  BY <1>1, <1>2, ConcatProperties, Zenon
  <2>2. Len(a) + Len(b) = n - 1  BY <1>0, <1>1, <1>2
  <2> QED  BY <2>1, <2>2
<1>4. \A k \in 1..(n - 1) : u[k] = IF k < i THEN s[k] ELSE s[k + 1]
  <2> TAKE k \in 1..(n - 1)
  <2>1. u[k] = IF k <= i - 1 THEN a[k] ELSE b[k - (i - 1)]
    BY <1>0, <1>1, <1>2, ConcatProperties
  <2>2. CASE k < i
    BY <1>0, <1>1, <2>1, <2>2
  <2>3. CASE ~(k < i)
    <3>1. k - (i - 1) \in 1..(n - i) /\ i + (k - (i - 1)) = k + 1  BY <1>0, <2>3
    <3> QED  BY <1>0, <1>2, <2>1, <2>3, <3>1
  <2> QED  BY <2>2, <2>3, Zenon
<1> QED  BY <1>3, <1>4, Zenon DEF a, b

\* n things of which no two are the same are n.
LEMMA CountDistinct ==
  ASSUME NEW S, NEW n \in Nat, NEW f \in [1..n -> S],
         \A x \in S : \E i \in 1..n : f[i] = x,
         \A i, j \in 1..n : f[i] = f[j] => i = j
  PROVE  Cardinality(S) = n /\ IsFiniteSet(S)
<1>1. f \in Bijection(1..n, S)  BY Fun_IsBij
<1>2. ExistsBijection(1..n, S)  BY <1>1 DEF ExistsBijection
<1> QED  BY <1>2, FS_CountingElements, FS_NatBijection
-----------------------------------------------------------------------------
(* Listeners *)

Ats == {"0", "1", "path"}
Addrs == {"ipv4", "ipv6", "all", "unix"}
Accepts == {"all", "irc", "web"}
PrefixTypes == [lead : BOOLEAN, word : {"none", "znc"}, trail : Nat]
ListenerTypes == [at : Ats, addr : Addrs, accept : Accepts, prefix : PrefixTypes, real : BOOLEAN]
Lists == {s \in Seq(ListenerTypes) : Len(s) <= MaxListeners}
Inbounds == [ip : IPs \cup {"none"}, accept : Accepts \cup {"none"},
             as : {"free", "incoming", "web", "client", "user", "refused"}]

\* What becomes of a listener that is written and read.
Norm(l) == [at |-> l.at, addr |-> l.addr, accept |-> l.accept,
            prefix |-> Ls!Normalised(l.prefix), real |-> TRUE]

Separate(s) == \A i, j \in 1..Len(s) : s[i].real /\ s[j].real /\ Ls!Overlap(s[i], s[j]) => i = j
OwnAddress(s) == \A i, j \in 1..Len(s) : Ls!Address(s[i]) = Ls!Address(s[j]) => i = j
AddressesOf(s) == {Ls!Address(s[i]) : i \in 1..Len(s)}
Rereads(s, n) == \E d \in Lists : /\ section = Ls!WriteConfig(d) /\ Len(d) = n
                                  /\ \A i \in 1..n : Norm(d[i]) = Norm(s[i])

\* The file holds listeners; once saved and loaded, those of the memory.
ListenersInv == /\ listeners \in Lists
                /\ \E d \in Lists : section = Ls!WriteConfig(d)
                /\ conns \in [Conns -> Inbounds]
                /\ written \in BOOLEAN /\ failed \in BOOLEAN /\ doubled \in BOOLEAN
                /\ Separate(listeners)
                /\ ~failed /\ ~doubled => wanted = AddressesOf(listeners) /\ OwnAddress(listeners)
                /\ written /\ ~failed => Rereads(listeners, Len(listeners))

LEMMA ListenerFields ==
  ASSUME NEW l \in ListenerTypes
  PROVE  /\ l.at \in Ats /\ l.addr \in Addrs /\ l.accept \in Accepts /\ l.prefix \in PrefixTypes
         /\ l.real \in BOOLEAN
         /\ l = [at |-> l.at, addr |-> l.addr, accept |-> l.accept, prefix |-> l.prefix, real |-> l.real]
  BY DEF ListenerTypes

LEMMA ListenerMade ==
  ASSUME NEW a \in Ats, NEW d \in Addrs, NEW c \in Accepts, NEW p \in PrefixTypes, NEW r \in BOOLEAN
  PROVE  LET l == [at |-> a, addr |-> d, accept |-> c, prefix |-> p, real |-> r]
         IN  /\ l \in ListenerTypes /\ l.at = a /\ l.addr = d /\ l.accept = c /\ l.prefix = p /\ l.real = r
  BY DEF ListenerTypes

LEMMA PrefixMade ==
  ASSUME NEW b \in BOOLEAN, NEW w \in {"none", "znc"}, NEW n \in Nat
  PROVE  /\ Ls!Prefix(b, w, n) \in PrefixTypes
         /\ Ls!Prefix(b, w, n).word = w
  BY DEF Ls!Prefix, PrefixTypes

LEMMA NormalisedFacts ==
  ASSUME NEW p \in PrefixTypes
  PROVE  /\ Ls!Normalised(p) \in PrefixTypes
         /\ Ls!Normalised(Ls!Normalised(p)) = Ls!Normalised(p)
         /\ Ls!Normalised([p EXCEPT !.trail = p.trail + 1]) = Ls!Normalised(p)
<1>1. p.word \in {"none", "znc"} /\ [p EXCEPT !.trail = p.trail + 1].word = p.word  BY DEF PrefixTypes
<1>2. CASE p.word = "none"
  <2>1. Ls!Normalised(p) = Ls!NoPrefix /\ Ls!NoPrefix.word = "none" /\ Ls!NoPrefix \in PrefixTypes
    BY <1>2, PrefixMade, Zenon DEF Ls!Normalised, Ls!NoPrefix
  <2> QED  BY <1>1, <1>2, <2>1 DEF Ls!Normalised
<1>3. CASE p.word = "znc"
  <2>1. Ls!Normalised(p) = Ls!Prefix(TRUE, "znc", 0) /\ Ls!Prefix(TRUE, "znc", 0).word = "znc"
        /\ Ls!Prefix(TRUE, "znc", 0) \in PrefixTypes
    BY <1>3, PrefixMade, Zenon DEF Ls!Normalised
  <2> QED  BY <1>1, <1>3, <2>1, Zenon DEF Ls!Normalised
<1> QED  BY <1>1, <1>2, <1>3

LEMMA NormFacts ==
  ASSUME NEW l \in ListenerTypes
  PROVE  /\ Norm(l) \in ListenerTypes /\ Norm(l).at = l.at /\ Norm(l).addr = l.addr /\ Norm(l).real = TRUE
         /\ Ls!Address(Norm(l)) = Ls!Address(l) /\ Norm(Norm(l)) = Norm(l)
         /\ [l EXCEPT !.prefix = Ls!Normalised(l.prefix), !.real = TRUE] = Norm(l)
         /\ \A b \in BOOLEAN : Norm([l EXCEPT !.real = b]) = Norm(l)
<1> DEFINE p == Ls!Normalised(l.prefix)
           t == TRUE
<1>0. l.prefix \in PrefixTypes /\ p \in PrefixTypes /\ Ls!Normalised(p) = p  BY ListenerFields, NormalisedFacts, Zenon
<1>1. [l EXCEPT !.prefix = p, !.real = TRUE] = [[l EXCEPT !.prefix = p] EXCEPT !.real = t]  OBVIOUS
<1>2. Norm(l) = [at |-> l.at, addr |-> l.addr, accept |-> l.accept, prefix |-> p, real |-> t]  BY DEF Norm
<1>3. t \in BOOLEAN  OBVIOUS
<1>4. \A b \in BOOLEAN : LET k == [l EXCEPT !.real = b] IN
         k.at = l.at /\ k.addr = l.addr /\ k.accept = l.accept /\ k.prefix = l.prefix
  BY DEF ListenerTypes
<1>5. \A b \in BOOLEAN : Norm([l EXCEPT !.real = b]) = Norm(l)  BY <1>4 DEF Norm
<1> HIDE DEF p, t
<1>6. /\ Norm(l) \in ListenerTypes /\ Norm(l).at = l.at /\ Norm(l).addr = l.addr /\ Norm(l).accept = l.accept
      /\ Norm(l).prefix = p /\ Norm(l).real = t
  BY <1>0, <1>2, <1>3, ListenerFields, ListenerMade
<1>7. Ls!Address(Norm(l)) = Ls!Address(l)  BY <1>6 DEF Ls!Address
<1>8. Norm(Norm(l)) = Norm(l)
  <2> DEFINE m == Norm(l)
  <2>1. Norm(m) = [at |-> m.at, addr |-> m.addr, accept |-> m.accept, prefix |-> Ls!Normalised(m.prefix), real |-> TRUE]
    BY DEF Norm
  <2> QED  BY <1>0, <1>2, <1>6, <2>1 DEF t
<1>9. [[l EXCEPT !.prefix = p] EXCEPT !.real = t] = Norm(l)
  <2>1. [l EXCEPT !.prefix = p] = [at |-> l.at, addr |-> l.addr, accept |-> l.accept, prefix |-> p, real |-> l.real]
    BY ListenerFields
  <2>2. [[at |-> l.at, addr |-> l.addr, accept |-> l.accept, prefix |-> p, real |-> l.real] EXCEPT !.real = t] =
          [at |-> l.at, addr |-> l.addr, accept |-> l.accept, prefix |-> p, real |-> t]
    OBVIOUS
  <2> QED  BY <1>2, <2>1, <2>2, Zenon
<1> QED  BY <1>1, <1>5, <1>6, <1>7, <1>8, <1>9 DEF p, t

\* What ToConfig writes, FromConfig reads.
LEMMA RoundTrip ==
  ASSUME NEW l \in ListenerTypes
  PROVE  Ls!FromConfig(Ls!ToConfig(l)) = Norm(l)
<1> DEFINE c == Ls!ToConfig(l)
           q == [l.prefix EXCEPT !.trail = l.prefix.trail + 1]
<1>0. l.at \in Ats /\ l.addr \in Addrs /\ l.accept \in Accepts /\ l.prefix \in PrefixTypes  BY ListenerFields
<1>1. /\ c.base = Ls!BaseConfig(l)
      /\ c.Path = (IF l.addr = "unix" THEN l.at ELSE "none")
      /\ c.Port = (IF l.addr = "unix" THEN "none" ELSE l.at)
      /\ c.IPv4 = (l.addr \in {"ipv4", "all"}) /\ c.IPv6 = (l.addr \in {"ipv6", "all"})
  BY DEF Ls!ToConfig
<1>2. /\ Ls!BaseConfig(l).URIPrefix = q
      /\ Ls!BaseConfig(l).AllowIRC = (l.accept # "web") /\ Ls!BaseConfig(l).AllowWeb = (l.accept # "irc")
  BY DEF Ls!BaseConfig
<1>3. Ls!Normalised(q) = Ls!Normalised(l.prefix)  BY <1>0, NormalisedFacts
<1> HIDE DEF c, q
<1> DEFINE f == Ls!FromConfig(c)
<1>4. f = [at |-> IF c.Port = "none" THEN c.Path ELSE c.Port,
           addr |-> CASE c.Port = "none" -> "unix"
                      [] c.Port # "none" /\ c.IPv4 -> IF c.IPv6 THEN "all" ELSE "ipv4"
                      [] OTHER -> "ipv6",
           accept |-> IF c.base.AllowIRC THEN (IF c.base.AllowWeb THEN "all" ELSE "irc") ELSE "web",
           prefix |-> Ls!Normalised(q), real |-> TRUE]
  BY <1>1, <1>2 DEF Ls!FromConfig
<1>5. (IF c.Port = "none" THEN c.Path ELSE c.Port) = l.at  BY <1>0, <1>1 DEF Ats
<1>6. (CASE c.Port = "none" -> "unix"
         [] c.Port # "none" /\ c.IPv4 -> IF c.IPv6 THEN "all" ELSE "ipv4"
         [] OTHER -> "ipv6") = l.addr
  BY <1>0, <1>1, Zenon DEF Ats, Addrs
<1>7. (IF c.base.AllowIRC THEN (IF c.base.AllowWeb THEN "all" ELSE "irc") ELSE "web") = l.accept
  BY <1>0, <1>1, <1>2, Zenon DEF Accepts
<1>8. f = Norm(l)  BY <1>3, <1>4, <1>5, <1>6, <1>7, Zenon DEF Norm
<1> QED  BY <1>8 DEF c
-----------------------------------------------------------------------------
(* Lists of listeners *)

LEMMA ListFacts ==
  ASSUME NEW s \in Lists
  PROVE  /\ s \in Seq(ListenerTypes) /\ Len(s) \in Nat /\ Len(s) <= MaxListeners /\ DOMAIN s = 1..Len(s)
         /\ \A i \in 1..Len(s) : s[i] \in ListenerTypes
         /\ Ls!Range(s) = {s[i] : i \in 1..Len(s)} /\ Ls!Addresses(s) = AddressesOf(s)
  BY DEF Lists, Ls!Range, Ls!Addresses, AddressesOf

LEMMA WrittenFacts ==
  ASSUME NEW s \in Lists
  PROVE  /\ Len(Ls!WriteConfig(s)) = Len(s) /\ DOMAIN Ls!WriteConfig(s) = 1..Len(s)
         /\ \A i \in 1..Len(s) : Ls!FromConfig(Ls!WriteConfig(s)[i]) = Norm(s[i])
<1>1. Ls!WriteConfig(s) = [i \in 1..Len(s) |-> Ls!ToConfig(s[i])]  BY ListFacts DEF Ls!WriteConfig
<1>2. \A i \in 1..Len(s) : Ls!WriteConfig(s)[i] = Ls!ToConfig(s[i])  BY <1>1
<1>3. Len(Ls!WriteConfig(s)) = Len(s) /\ DOMAIN Ls!WriteConfig(s) = 1..Len(s)  BY <1>1, ListFacts
<1> QED  BY <1>2, <1>3, ListFacts, RoundTrip

LEMMA LoadsFacts ==
  ASSUME NEW d \in Lists, section = Ls!WriteConfig(d), NEW n \in 0..Len(d)
  PROVE  /\ Ls!Loads(n) = [i \in 1..n |-> Norm(d[i])]
         /\ Ls!Loads(n) \in Lists /\ Len(Ls!Loads(n)) = n
         /\ Len(section) = Len(d) /\ DOMAIN section = 1..Len(d)
<1>1. Len(d) \in Nat /\ Len(d) <= MaxListeners /\ n \in Nat /\ n <= MaxListeners /\ 1..n \subseteq 1..Len(d)
  BY ListFacts, KeptAssumption
<1>2. Ls!Loads(n) = [i \in 1..n |-> Ls!FromConfig(section[i])]  BY DEF Ls!Loads
<1>3. \A i \in 1..n : Ls!FromConfig(section[i]) = Norm(d[i]) /\ Norm(d[i]) \in ListenerTypes
  BY <1>1, WrittenFacts, ListFacts, NormFacts, Zenon
<1>4. Ls!Loads(n) = [i \in 1..n |-> Norm(d[i])]  BY <1>2, <1>3
<1> DEFINE s == [i \in 1..n |-> Norm(d[i])]
<1>5. s \in Seq(ListenerTypes) /\ Len(s) = n  BY <1>1, <1>3
<1> QED  BY <1>1, <1>4, <1>5, WrittenFacts DEF Lists

\* One more listener.
LEMMA AppendedFacts ==
  ASSUME NEW s \in Lists, NEW l \in ListenerTypes, Len(s) < MaxListeners
  PROVE  LET t == Append(s, l) IN
         /\ t \in Lists /\ Len(t) = Len(s) + 1 /\ t[Len(s) + 1] = l
         /\ \A i \in 1..Len(s) : t[i] = s[i]
         /\ AddressesOf(t) = AddressesOf(s) \cup {Ls!Address(l)}
         /\ Ls!Address(l) \notin AddressesOf(s) /\ OwnAddress(s) => OwnAddress(t)
<1> DEFINE t == Append(s, l)
           n == Len(s)
<1>1. n \in Nat /\ n < MaxListeners /\ t \in Seq(ListenerTypes) /\ Len(t) = n + 1 /\ t[n + 1] = l
      /\ \A i \in 1..n : t[i] = s[i]
  BY ListFacts
<1> HIDE DEF t, n
<1>2. \A i \in 1..Len(t) : i \in 1..n \/ i = n + 1  BY <1>1
<1>3. 1..n \subseteq 1..Len(t) /\ n + 1 \in 1..Len(t)  BY <1>1
<1>4. AddressesOf(t) = AddressesOf(s) \cup {Ls!Address(l)}  BY <1>1, <1>2, <1>3 DEF AddressesOf, n
<1>5. ASSUME Ls!Address(l) \notin AddressesOf(s), OwnAddress(s) PROVE OwnAddress(t)
  <2> SUFFICES ASSUME NEW i \in 1..Len(t), NEW j \in 1..Len(t), Ls!Address(t[i]) = Ls!Address(t[j]) PROVE i = j
    BY DEF OwnAddress
  <2>1. \A k \in 1..n : Ls!Address(s[k]) # Ls!Address(l)  BY <1>5 DEF AddressesOf, n
  <2>2. \A k, m \in 1..n : Ls!Address(s[k]) = Ls!Address(s[m]) => k = m  BY <1>5 DEF OwnAddress, n
  <2> QED  BY <1>1, <1>2, <2>1, <2>2
<1>6. t \in Lists  BY <1>1, KeptAssumption DEF Lists
<1> QED  BY <1>1, <1>4, <1>5, <1>6 DEF t, n

LEMMA AppendedSeparate ==
  ASSUME NEW s \in Lists, NEW l \in ListenerTypes, Len(s) < MaxListeners, Separate(s), Ls!Listen(l, s)
  PROVE  Separate(Append(s, l))
<1> DEFINE t == Append(s, l)
           n == Len(s)
<1>1. n \in Nat /\ Len(t) = n + 1 /\ t[n + 1] = l /\ \A i \in 1..n : t[i] = s[i]
  BY ListFacts
<1>2. \A i \in 1..n : s[i].real => ~Ls!Overlap(s[i], l) /\ ~Ls!Overlap(l, s[i])
  <2>1. \A i \in 1..n : s[i] \in Ls!Range(s)  BY ListFacts
  <2> QED  BY <2>1 DEF Ls!Listen, Ls!ListenTCP, Ls!ListenUnix, Ls!Taken, Ls!Overlap
<1> HIDE DEF t, n
<1>3. \A i \in 1..Len(t) : i \in 1..n \/ i = n + 1  BY <1>1
<1>4. \A i, j \in 1..n : s[i].real /\ s[j].real /\ Ls!Overlap(s[i], s[j]) => i = j  BY DEF Separate, n
<1>5. Separate(t)
  <2> SUFFICES ASSUME NEW i \in 1..Len(t), NEW j \in 1..Len(t), t[i].real, t[j].real, Ls!Overlap(t[i], t[j])
               PROVE  i = j
    BY DEF Separate
  <2> QED  BY <1>1, <1>2, <1>3, <1>4
<1> QED  BY <1>5 DEF t

\* One less.
LEMMA DroppedFacts ==
  ASSUME NEW s \in Lists, NEW x \in 1..Len(s)
  PROVE  LET t == Ls!RemoveAt(s, x) IN
         /\ t \in Lists
         /\ Separate(s) => Separate(t)
         /\ OwnAddress(s) => OwnAddress(t) /\ AddressesOf(t) = AddressesOf(s) \ {Ls!Address(s[x])}
<1> DEFINE t == Ls!RemoveAt(s, x)
           n == Len(s)
           f(k) == IF k < x THEN k ELSE k + 1
<1>0. n \in Nat /\ n <= MaxListeners /\ s \in Seq(ListenerTypes)  BY ListFacts
<1>1. t \in Seq(ListenerTypes) /\ Len(t) = n - 1 /\ \A k \in 1..n - 1 : t[k] = IF k < x THEN s[k] ELSE s[k + 1]
  BY <1>0, RemovedFacts, Zenon DEF Ls!RemoveAt
<1> HIDE DEF t, n
<1>2. \A k \in 1..n - 1 : f(k) \in 1..n /\ f(k) # x /\ t[k] = s[f(k)]  BY <1>0, <1>1 DEF n
<1>3. \A j, k \in 1..n - 1 : f(j) = f(k) => j = k  BY <1>0 DEF n
<1>4. \A i \in 1..n : i # x => \E k \in 1..n - 1 : f(k) = i
  <2> SUFFICES ASSUME NEW i \in 1..n, i # x PROVE \E k \in 1..n - 1 : f(k) = i  OBVIOUS
  <2> DEFINE k == IF i < x THEN i ELSE i - 1
  <2>1. k \in 1..n - 1 /\ f(k) = i  BY <1>0 DEF n
  <2> QED  BY <2>1
<1> HIDE DEF f
<1>5. Len(t) = n - 1 /\ t \in Lists  BY <1>0, <1>1, KeptAssumption DEF Lists
<1>6. ASSUME Separate(s) PROVE Separate(t)  BY <1>2, <1>3, <1>5, <1>6 DEF Separate, n
<1>7. ASSUME OwnAddress(s) PROVE OwnAddress(t)  BY <1>2, <1>3, <1>5, <1>7 DEF OwnAddress, n
<1>8. ASSUME OwnAddress(s) PROVE AddressesOf(t) = AddressesOf(s) \ {Ls!Address(s[x])}
  <2>1. \A a \in AddressesOf(t) : a \in AddressesOf(s) /\ a # Ls!Address(s[x])
    BY <1>2, <1>5, <1>8 DEF AddressesOf, OwnAddress, n
  <2>2. ASSUME NEW a \in AddressesOf(s), a # Ls!Address(s[x]) PROVE a \in AddressesOf(t)
    <3>1. PICK i \in 1..n : a = Ls!Address(s[i])  BY <2>2 DEF AddressesOf, n
    <3>2. i # x  BY <2>2, <3>1
    <3>3. PICK k \in 1..n - 1 : f(k) = i  BY <1>4, <3>2
    <3>4. a = Ls!Address(t[k])  BY <1>2, <3>1, <3>3
    <3> QED  BY <1>5, <3>4 DEF AddressesOf
  <2> QED  BY <2>1, <2>2
<1> QED  BY <1>5, <1>6, <1>7, <1>8 DEF t

\* A set of numbers has a least one.
LEMMA NatLeast ==
  ASSUME NEW S, S \subseteq Nat, S # {}
  PROVE  \E x \in S : \A y \in S : x <= y
<1> DEFINE R == OpToRel(<, Nat)
<1>1. IsWellFoundedOn(R, Nat)  BY NatLessThanWellFounded
<1>2. \A x, y \in Nat : y < x => <<y, x>> \in R  BY DEF OpToRel
<1> HIDE DEF R
<1>3. PICK x \in S : \A y \in S : ~(<<y, x>> \in R)  BY <1>1, WFMin
<1>4. ASSUME NEW y \in S PROVE x <= y
  <2>1. x \in Nat /\ y \in Nat  OBVIOUS
  <2>2. ~(y < x)  BY <1>2, <1>3, <2>1
  <2> QED  BY <2>1, <2>2
<1> QED  BY <1>4

LEMMA FoundFacts ==
  ASSUME listeners \in Lists, NEW a, Ls!Found(a) > 0
  PROVE  Ls!Found(a) \in 1..Len(listeners) /\ Ls!Address(listeners[Ls!Found(a)]) = a
<1> DEFINE I == {i \in 1..Len(listeners) : Ls!Address(listeners[i]) = a}
<1>1. Len(listeners) \in Nat /\ Len(listeners) <= MaxListeners  BY ListFacts
<1>2. Ls!Found(a) = IF I # {} THEN Ls!Min(I) ELSE 0  BY DEF Ls!Found, Ls!SelectInSeq
<1>3. I # {}  BY <1>2
<1>4. \E x \in I : \A y \in I : x <= y
  <2>1. I \subseteq Nat  BY <1>1
  <2> HIDE DEF I
  <2> QED  BY <1>3, <2>1, NatLeast
<1>5. Ls!Min(I) \in I  BY <1>4 DEF Ls!Min
<1> QED  BY <1>2, <1>3, <1>5
-----------------------------------------------------------------------------
(* The steps of the listeners *)

LEMMA ListenersInit == Ls!Init => ListenersInv
<1> SUFFICES ASSUME Ls!Init PROVE ListenersInv  OBVIOUS
<1> DEFINE l == Ls!TCP("1", "ipv4", "all", Ls!NoPrefix)
           s == <<l>>
<1>1. /\ listeners = s /\ section = Ls!WriteConfig(listeners) /\ conns = [c \in Conns |-> Ls!Free]
      /\ wanted = Ls!Addresses(listeners) /\ written = TRUE /\ failed = FALSE /\ doubled = FALSE
  BY DEF Ls!Init
<1>2. l \in ListenerTypes
  <2>1. Ls!NoPrefix \in PrefixTypes  BY PrefixMade, Zenon DEF Ls!NoPrefix
  <2> QED  BY <2>1 DEF Ls!TCP, ListenerTypes, Ats, Addrs, Accepts
<1> HIDE DEF l
<1>3. s \in Lists /\ Len(s) = 1  BY <1>2, KeptAssumption DEF Lists
<1> HIDE DEF s
<1>4. Separate(s) /\ OwnAddress(s)  BY <1>3 DEF Separate, OwnAddress
<1>5. conns \in [Conns -> Inbounds]
  <2>1. Ls!Free \in Inbounds  BY DEF Ls!Free, Inbounds
  <2> QED  BY <1>1, <2>1
<1>6. Rereads(listeners, Len(listeners))  BY <1>1, <1>3 DEF Rereads
<1>7. wanted = AddressesOf(listeners)  BY <1>1, <1>3, ListFacts
<1> QED  BY <1>1, <1>3, <1>4, <1>5, <1>6, <1>7, Zenon DEF ListenersInv

\* What a request is, and what is saved.
LEMMA RequestFacts == \A l \in Ls!Requests : l \in ListenerTypes
<1>1. /\ Ls!NoPrefix \in PrefixTypes /\ Ls!Prefix(FALSE, "znc", 0) \in PrefixTypes
      /\ Ls!Prefix(TRUE, "znc", 0) \in PrefixTypes /\ Ls!Prefix(TRUE, "znc", 1) \in PrefixTypes
  BY DEF Ls!NoPrefix, Ls!Prefix, PrefixTypes
<1>2. \A a \in Ats, d \in Addrs, c \in Accepts, p \in PrefixTypes : Ls!TCP(a, d, c, p) \in ListenerTypes
  BY DEF Ls!TCP, ListenerTypes
<1>3. Ls!TCP("1", "ipv4", "all", Ls!NoPrefix) \in ListenerTypes  BY <1>1, <1>2 DEF Ats, Addrs, Accepts
<1>4. Ls!TCP("1", "ipv6", "irc", Ls!Prefix(FALSE, "znc", 0)) \in ListenerTypes  BY <1>1, <1>2, Zenon DEF Ats, Addrs, Accepts
<1>5. Ls!TCP("1", "all", "web", Ls!Prefix(TRUE, "znc", 1)) \in ListenerTypes  BY <1>1, <1>2, Zenon DEF Ats, Addrs, Accepts
<1>6. Ls!TCP("0", "all", "all", Ls!NoPrefix) \in ListenerTypes  BY <1>1, <1>2 DEF Ats, Addrs, Accepts
<1>7. Ls!Unix("path", "all", Ls!Prefix(TRUE, "znc", 0)) \in ListenerTypes
  BY <1>1, <1>2, Zenon DEF Ls!Unix, Ats, Addrs, Accepts
<1> QED  BY <1>3, <1>4, <1>5, <1>6, <1>7, Zenon DEF Ls!Requests

LEMMA SaveKeeps ==
  ASSUME listeners' \in Lists,
         \/ section' = Ls!WriteConfig(listeners')
         \/ section' = section /\ written' = FALSE /\ \E d \in Lists : section = Ls!WriteConfig(d)
  PROVE  /\ \E d \in Lists : section' = Ls!WriteConfig(d)
         /\ written' => Rereads(listeners, Len(listeners))'
<1>1. CASE section' = Ls!WriteConfig(listeners')
  <2>1. Rereads(listeners, Len(listeners))'  BY <1>1 DEF Rereads
  <2> QED  BY <1>1, <2>1
<1>2. CASE section' = section /\ written' = FALSE /\ \E d \in Lists : section = Ls!WriteConfig(d)  BY <1>2
<1> QED  BY <1>1, <1>2

LEMMA AddedKeeps ==
  ASSUME ListenersInv, NEW l \in Ls!Requests, Len(listeners) < MaxListeners, Ls!Listen(l, listeners), Ls!Added(l),
         UNCHANGED <<conns, failed>>, written' \in BOOLEAN,
         section' = Ls!WriteConfig(listeners') \/ (section' = section /\ written' = FALSE)
  PROVE  ListenersInv'
<1>0. listeners \in Lists /\ l \in ListenerTypes /\ Separate(listeners)  BY RequestFacts DEF ListenersInv
<1>1. /\ listeners' = Append(listeners, l) /\ wanted' = wanted \cup {Ls!Address(l)}
      /\ doubled' = (doubled \/ Ls!Address(l) \in AddressesOf(listeners))
  BY <1>0, ListFacts DEF Ls!Added
<1>2. /\ listeners' \in Lists /\ AddressesOf(listeners') = AddressesOf(listeners) \cup {Ls!Address(l)}
      /\ Ls!Address(l) \notin AddressesOf(listeners) /\ OwnAddress(listeners) => OwnAddress(listeners')
  BY <1>0, <1>1, AppendedFacts
<1>3. Separate(listeners')  BY <1>0, <1>1, AppendedSeparate
<1>4. ~failed' /\ ~doubled' => wanted' = AddressesOf(listeners') /\ OwnAddress(listeners')
  BY <1>1, <1>2, Zenon DEF ListenersInv
<1>5. /\ \E d \in Lists : section' = Ls!WriteConfig(d)
      /\ written' => Rereads(listeners, Len(listeners))'
  BY <1>2, SaveKeeps, Zenon DEF ListenersInv
<1>6. doubled' \in BOOLEAN  BY <1>1 DEF ListenersInv
<1> QED  BY <1>2, <1>3, <1>4, <1>5, <1>6 DEF ListenersInv

LEMMA DeletedKeeps ==
  ASSUME ListenersInv, NEW a, Ls!Deleted(a), UNCHANGED <<conns, failed, doubled>>, written' \in BOOLEAN,
         section' = Ls!WriteConfig(listeners') \/ (section' = section /\ written' = FALSE)
  PROVE  ListenersInv'
<1> DEFINE x == Ls!Found(a)
<1>0. listeners \in Lists /\ Separate(listeners)  BY DEF ListenersInv
<1>1. x > 0 /\ listeners' = Ls!RemoveAt(listeners, x) /\ wanted' = wanted \ {a}  BY DEF Ls!Deleted
<1>2. x \in 1..Len(listeners) /\ Ls!Address(listeners[x]) = a  BY <1>0, <1>1, FoundFacts
<1> HIDE DEF x
<1>3. /\ listeners' \in Lists /\ Separate(listeners')
      /\ OwnAddress(listeners) => OwnAddress(listeners') /\ AddressesOf(listeners') = AddressesOf(listeners) \ {a}
  BY <1>0, <1>1, <1>2, DroppedFacts
<1>4. ~failed' /\ ~doubled' => wanted' = AddressesOf(listeners') /\ OwnAddress(listeners')
  BY <1>1, <1>3 DEF ListenersInv
<1>5. /\ \E d \in Lists : section' = Ls!WriteConfig(d)
      /\ written' => Rereads(listeners, Len(listeners))'
  BY <1>3, SaveKeeps, Zenon DEF ListenersInv
<1> QED  BY <1>3, <1>4, <1>5 DEF ListenersInv

LEMMA SockErrorKeeps == ASSUME ListenersInv, Ls!SockError PROVE ListenersInv'
<1>1. PICK x \in DOMAIN listeners : listeners[x].real /\ listeners' = [listeners EXCEPT ![x].real = FALSE]
  BY Zenon DEF Ls!SockError
<1>2. UNCHANGED <<section, conns, wanted, written, failed, doubled>>  BY DEF Ls!SockError
<1>3. listeners \in Lists  BY DEF ListenersInv
<1> DEFINE f == FALSE
           l == [listeners[x] EXCEPT !.real = f]
<1>4. x \in 1..Len(listeners) /\ listeners[x] \in ListenerTypes /\ Len(listeners) \in Nat
      /\ \A i \in 1..Len(listeners) : listeners[i] \in ListenerTypes
  BY <1>3, ListFacts
<1>5. listeners' = [listeners EXCEPT ![x] = l]  BY <1>1
<1>6. f \in BOOLEAN /\ ~f  OBVIOUS
<1>a. [listeners[x] EXCEPT !.real = f] = l  OBVIOUS
<1> HIDE DEF f, l
<1>7. /\ l \in ListenerTypes /\ ~l.real /\ l.at = listeners[x].at /\ l.addr = listeners[x].addr
      /\ Norm(l) = Norm(listeners[x])
  <2>1. \A b \in BOOLEAN : LET k == [listeners[x] EXCEPT !.real = b] IN
           k \in ListenerTypes /\ k.real = b /\ k.at = listeners[x].at /\ k.addr = listeners[x].addr
    BY <1>4 DEF ListenerTypes
  <2>2. \A b \in BOOLEAN : Norm([listeners[x] EXCEPT !.real = b]) = Norm(listeners[x])  BY <1>4, NormFacts, Zenon
  <2> QED  BY <1>6, <1>a, <2>1, <2>2, Zenon
<1>8. /\ listeners' \in Lists /\ Len(listeners') = Len(listeners)
      /\ \A i \in 1..Len(listeners) : listeners'[i] = IF i = x THEN l ELSE listeners[i]
  BY <1>3, <1>4, <1>5, <1>7 DEF Lists
<1>9. \A i \in 1..Len(listeners) : /\ listeners'[i].at = listeners[i].at /\ listeners'[i].addr = listeners[i].addr
                                   /\ listeners'[i].real => listeners[i].real
                                   /\ Norm(listeners'[i]) = Norm(listeners[i])
                                   /\ Ls!Address(listeners'[i]) = Ls!Address(listeners[i])
  <2> SUFFICES ASSUME NEW i \in 1..Len(listeners)
               PROVE  /\ listeners'[i].at = listeners[i].at /\ listeners'[i].addr = listeners[i].addr
                      /\ listeners'[i].real => listeners[i].real
                      /\ Norm(listeners'[i]) = Norm(listeners[i])
                      /\ Ls!Address(listeners'[i]) = Ls!Address(listeners[i])
    OBVIOUS
  <2>1. CASE i = x  BY <1>7, <1>8, <2>1 DEF Ls!Address
  <2>2. CASE i # x  BY <1>8, <2>2
  <2> QED  BY <2>1, <2>2
<1>10. Separate(listeners')  BY <1>8, <1>9 DEF ListenersInv, Separate, Ls!Overlap
<1>11. OwnAddress(listeners) => OwnAddress(listeners')  BY <1>8, <1>9 DEF OwnAddress
<1>12. AddressesOf(listeners') = AddressesOf(listeners)  BY <1>8, <1>9 DEF AddressesOf
<1>13. Rereads(listeners, Len(listeners)) => Rereads(listeners, Len(listeners))'  BY <1>2, <1>8, <1>9 DEF Rereads
<1> QED  BY <1>2, <1>8, <1>10, <1>11, <1>12, <1>13 DEF ListenersInv
LEMMA LoadListenersKeeps == ASSUME ListenersInv, Ls!LoadListeners PROVE ListenersInv'
<1>1. PICK d \in Lists : section = Ls!WriteConfig(d)  BY DEF ListenersInv
<1>2. Len(section) = Len(d) /\ DOMAIN section = 1..Len(d) /\ Len(d) \in Nat /\ Len(d) <= MaxListeners
  BY <1>1, WrittenFacts, ListFacts
<1>3. PICK n \in 0..Len(d) :
        /\ Ls!Binds(n) /\ listeners' = Ls!Loads(n)
        /\ wanted' = {Ls!Address(Ls!FromConfig(section[i])) : i \in DOMAIN section}
        /\ failed' = (n < Len(section))
  BY <1>2 DEF Ls!LoadListeners
<1>a. ~failed' => n = Len(d)
  <2> DEFINE k == Len(section)
             h == Len(d)
  <2>1. ~failed' => ~(n < k)  BY <1>3, Zenon
  <2>2. k = h /\ h \in Nat /\ n \in 0..h  BY <1>2, Zenon
  <2> HIDE DEF k, h
  <2>3. ~(n < k) => n = h  BY <2>2
  <2> QED  BY <2>1, <2>3, Zenon DEF h
<1>4. written' = TRUE /\ UNCHANGED <<section, conns>>
      /\ doubled' = (doubled /\ Ls!Cardinality(wanted') < Len(section))
  BY DEF Ls!LoadListeners
<1>5. listeners' = [i \in 1..n |-> Norm(d[i])] /\ listeners' \in Lists /\ Len(listeners') = n
  BY <1>1, <1>3, LoadsFacts
<1>6. n \in Nat /\ 1..n \subseteq 1..Len(d) /\ \A i \in 1..n : listeners'[i] = Norm(d[i])  BY <1>2, <1>5
<1>7. \A i \in 1..Len(d) : d[i] \in ListenerTypes /\ Ls!FromConfig(section[i]) = Norm(d[i])
  BY <1>1, ListFacts, WrittenFacts
\* Each was bound next to those before it, which all have a socket.
<1>8. \A i, j \in 1..n : j < i => ~Ls!Overlap(listeners'[j], listeners'[i]) /\ ~Ls!Overlap(listeners'[i], listeners'[j])
  <2> SUFFICES ASSUME NEW i \in 1..n, NEW j \in 1..n, j < i
               PROVE  ~Ls!Overlap(listeners'[j], listeners'[i]) /\ ~Ls!Overlap(listeners'[i], listeners'[j])
    OBVIOUS
  <2> DEFINE s == Ls!Loads(i - 1)
             l == listeners'[i]
             k == listeners'[j]
  <2>1. i - 1 \in 0..Len(d) /\ j \in 1..(i - 1)  BY <1>6
  <2>2. s = [x \in 1..(i - 1) |-> Norm(d[x])] /\ s \in Lists /\ Len(s) = i - 1  BY <1>1, <2>1, LoadsFacts, Zenon
  <2>3. s[j] = k /\ Ls!FromConfig(section[i]) = l  BY <1>6, <1>7, <2>1, <2>2
  <2>4. k.real
    <3>1. k = Norm(d[j]) /\ d[j] \in ListenerTypes  BY <1>6, <1>7
    <3>2. Norm(d[j]).real = TRUE  BY <3>1, NormFacts, Zenon
    <3> QED  BY <3>1, <3>2
  <2>5. Ls!Listen(Ls!FromConfig(section[i]), s)  BY <1>3 DEF Ls!Binds
  <2>6. Ls!Listen(l, s)  BY <2>3, <2>5
  <2>7. k \in Ls!Range(s)  BY <2>1, <2>2, <2>3, ListFacts
  <2> HIDE DEF s, l, k
  <2>8. ~Ls!Overlap(k, l)  BY <2>4, <2>6, <2>7 DEF Ls!Listen, Ls!ListenTCP, Ls!ListenUnix, Ls!Taken
  <2>9. ~Ls!Overlap(l, k)  BY <2>8 DEF Ls!Overlap
  <2> QED  BY <2>8, <2>9 DEF l, k
<1>9. Separate(listeners')
  <2> SUFFICES ASSUME NEW i \in 1..n, NEW j \in 1..n, Ls!Overlap(listeners'[i], listeners'[j]) PROVE i = j
    BY <1>5 DEF Separate
  <2> QED  BY <1>6, <1>8
<1>10. OwnAddress(listeners')
  <2> SUFFICES ASSUME NEW i \in 1..n, NEW j \in 1..n, Ls!Address(listeners'[i]) = Ls!Address(listeners'[j]) PROVE i = j
    BY <1>5 DEF OwnAddress
  <2>1. Ls!Overlap(listeners'[i], listeners'[j]) /\ Ls!Overlap(listeners'[j], listeners'[i])
    BY DEF Ls!Address, Ls!Overlap
  <2> QED  BY <1>6, <1>8, <2>1
<1>11. ~failed' => wanted' = AddressesOf(listeners')
  <2> SUFFICES ASSUME ~failed' PROVE wanted' = AddressesOf(listeners')  OBVIOUS
  <2>1. n = Len(d)  BY <1>a
  <2> QED  BY <1>2, <1>3, <1>5, <1>6, <1>7, <2>1 DEF AddressesOf
<1>12. ~failed' => Rereads(listeners, Len(listeners))'
  <2> SUFFICES ASSUME ~failed' PROVE Rereads(listeners, Len(listeners))'  OBVIOUS
  <2>1. n = Len(d)  BY <1>a
  <2>2. \A i \in 1..n : Norm(d[i]) = Norm(listeners'[i])  BY <1>6, <1>7, NormFacts, Zenon
  <2> QED  BY <1>1, <1>4, <1>5, <2>1, <2>2 DEF Rereads
<1>13. failed' \in BOOLEAN /\ doubled' \in BOOLEAN  BY <1>3, <1>4 DEF ListenersInv
<1> QED  BY <1>1, <1>4, <1>5, <1>9, <1>10, <1>11, <1>12, <1>13 DEF ListenersInv

LEMMA InboundKeeps ==
  ASSUME ListenersInv, Ls!Accept \/ Ls!ReadLine \/ Ls!Login \/ Ls!Closed
  PROVE  ListenersInv'
<1>0. conns \in [Conns -> Inbounds] /\ listeners \in Lists  BY DEF ListenersInv
<1>1. UNCHANGED <<listeners, section, wanted, written, failed, doubled>>
  BY DEF Ls!Accept, Ls!ReadLine, Ls!Login, Ls!Closed
<1>2. conns' \in [Conns -> Inbounds]
  <2>1. CASE Ls!Accept
    <3>1. PICK c \in Conns, ip \in IPs, l \in Ls!Range(listeners) :
            /\ l.real /\ conns[c] = Ls!Free
            /\ conns' = [conns EXCEPT ![c] =
                 [ip |-> ip, accept |-> l.accept,
                  as |-> IF Ls!AllowConnectionFrom(ip) THEN "incoming" ELSE "refused"]]
            /\ UNCHANGED <<listeners, section, wanted, written, failed, doubled>>
      BY <2>1, Zenon DEF Ls!Accept
    <3>2. l.accept \in Accepts  BY <1>0, ListFacts, ListenerFields
    <3>3. [ip |-> ip, accept |-> l.accept, as |-> IF Ls!AllowConnectionFrom(ip) THEN "incoming" ELSE "refused"] \in Inbounds
      BY <3>2 DEF Inbounds
    <3> QED  BY <1>0, <3>1, <3>3
  <2>2. CASE Ls!ReadLine
    <3>1. PICK c \in Conns, http \in BOOLEAN : conns' = [conns EXCEPT ![c] = Ls!Dispatched(conns[c], http)]
      BY <2>2, Zenon DEF Ls!ReadLine
    <3>2. Ls!Dispatched(conns[c], http) \in Inbounds
      <4>1. conns[c] \in Inbounds  BY <1>0
      <4> QED  BY <4>1, Zenon DEF Ls!Dispatched, Inbounds, Accepts
    <3> QED  BY <1>0, <3>1, <3>2
  <2>3. CASE Ls!Login
    <3>1. PICK c \in Conns : conns' = [conns EXCEPT ![c].as = "user"]  BY <2>3 DEF Ls!Login
    <3>2. [conns[c] EXCEPT !.as = "user"] \in Inbounds  BY <1>0 DEF Inbounds
    <3> QED  BY <1>0, <3>1, <3>2
  <2>4. CASE Ls!Closed
    <3>1. PICK c \in Conns : conns' = [conns EXCEPT ![c] = Ls!Free]  BY <2>4 DEF Ls!Closed
    <3>2. Ls!Free \in Inbounds  BY DEF Ls!Free, Inbounds
    <3> QED  BY <1>0, <3>1, <3>2
  <2> QED  BY <2>1, <2>2, <2>3, <2>4
<1> QED  BY <1>1, <1>2 DEF ListenersInv, Rereads

LEMMA ListenersStep == ASSUME ListenersInv, Ls!Next PROVE ListenersInv'
<1>0. written \in BOOLEAN  BY DEF ListenersInv
<1>1. CASE Ls!AddPort
  <2>1. PICK l \in Ls!Requests : /\ Len(listeners) < MaxListeners /\ Ls!Listen(l, listeners) /\ Ls!Added(l) /\ written' = FALSE
                                 /\ UNCHANGED <<section, conns, failed>>
    BY <1>1 DEF Ls!AddPort
  <2> QED  BY <2>1, AddedKeeps, Zenon
<1>2. CASE Ls!WebAddListener
  <2>1. PICK l \in Ls!Requests : /\ Len(listeners) < MaxListeners /\ Ls!Listen(l, listeners) /\ Ls!Added(l) /\ Ls!SaveOrNot
                                 /\ UNCHANGED <<conns, failed>>
    BY <1>2 DEF Ls!WebAddListener
  <2>2. written' \in BOOLEAN /\ (section' = Ls!WriteConfig(listeners') \/ (section' = section /\ written' = FALSE))
    BY <2>1, Zenon DEF Ls!SaveOrNot, Ls!Save
  <2> QED  BY <2>1, <2>2, AddedKeeps, Zenon
<1>3. CASE Ls!DelPort
  <2>1. PICK a \in Ls!Addresses(listeners) : Ls!Deleted(a) /\ written' = FALSE /\ UNCHANGED <<section, conns, failed, doubled>>
    BY <1>3 DEF Ls!DelPort
  <2> QED  BY <2>1, DeletedKeeps, Zenon
<1>4. CASE Ls!WebDelListener
  <2>1. PICK a \in Ls!Addresses(listeners) : Ls!Deleted(a) /\ Ls!SaveOrNot /\ UNCHANGED <<conns, failed, doubled>>
    BY <1>4 DEF Ls!WebDelListener
  <2>2. written' \in BOOLEAN /\ (section' = Ls!WriteConfig(listeners') \/ (section' = section /\ written' = FALSE))
    BY <2>1, Zenon DEF Ls!SaveOrNot, Ls!Save
  <2> QED  BY <2>1, <2>2, DeletedKeeps, Zenon
<1>5. CASE Ls!SaveConfig
  <2>1. section' = Ls!WriteConfig(listeners') /\ written' = TRUE /\ UNCHANGED <<listeners, conns, wanted, failed, doubled>>
    BY <1>5 DEF Ls!SaveConfig, Ls!Save
  <2>2. listeners' \in Lists  BY <2>1 DEF ListenersInv
  <2>3. /\ \E d \in Lists : section' = Ls!WriteConfig(d)
        /\ written' => Rereads(listeners, Len(listeners))'
    BY <2>1, <2>2, SaveKeeps
  <2> QED  BY <2>1, <2>2, <2>3 DEF ListenersInv
<1> QED  BY <1>1, <1>2, <1>3, <1>4, <1>5, SockErrorKeeps, LoadListenersKeeps, InboundKeeps DEF Ls!Next

LEMMA ListenersStutter == ListenersInv /\ UNCHANGED lsVars => ListenersInv'
  BY DEF ListenersInv, Rereads, lsVars

LEMMA ListenersRight == ListenersInv => Ls!TypeOK /\ Ls!PortsKept
<1> SUFFICES ASSUME ListenersInv PROVE Ls!TypeOK /\ Ls!PortsKept  OBVIOUS
<1>0. listeners \in Lists  BY DEF ListenersInv
<1>1. DOMAIN listeners = 1..Len(listeners) /\ Len(listeners) \in Nat /\ Len(listeners) <= MaxListeners
      /\ \A i \in 1..Len(listeners) : listeners[i] \in ListenerTypes
  BY <1>0, ListFacts
<1>2. Ls!TypeOK  BY <1>1 DEF Ls!TypeOK, ListenersInv, Inbounds
<1>3. ASSUME ~failed, ~doubled
      PROVE  Ls!Addresses(listeners) = wanted /\ Ls!Cardinality(wanted) = Len(listeners)
  <2> DEFINE n == Len(listeners)
             f == [i \in 1..n |-> Ls!Address(listeners[i])]
  <2>1. wanted = AddressesOf(listeners) /\ OwnAddress(listeners)  BY <1>3 DEF ListenersInv
  <2>2. f \in [1..n -> wanted] /\ (\A x \in wanted : \E i \in 1..n : f[i] = x)
        /\ (\A i, j \in 1..n : f[i] = f[j] => i = j)
    BY <2>1 DEF AddressesOf, OwnAddress
  <2> HIDE DEF f
  <2>3. Cardinality(wanted) = n  BY <1>1, <2>2, CountDistinct
  <2>4. Ls!Cardinality(wanted) = Cardinality(wanted)  BY DEF Ls!Cardinality, Cardinality
  <2> QED  BY <1>0, <2>1, <2>3, <2>4, ListFacts
<1>4. ASSUME written, ~failed
      PROVE  Ls!Loads(Len(section)) =
               [i \in DOMAIN listeners |-> [listeners[i] EXCEPT !.prefix = Ls!Normalised(@), !.real = TRUE]]
  <2>1. Rereads(listeners, Len(listeners))  BY <1>4 DEF ListenersInv
  <2>2. PICK d \in Lists : /\ section = Ls!WriteConfig(d) /\ Len(d) = Len(listeners)
                           /\ \A i \in 1..Len(listeners) : Norm(d[i]) = Norm(listeners[i])
    BY <2>1 DEF Rereads
  <2>3. Len(section) = Len(d) /\ Len(d) \in 0..Len(d)  BY <1>1, <2>2, WrittenFacts
  <2>4. Ls!Loads(Len(d)) = [i \in 1..Len(d) |-> Norm(d[i])]  BY <2>2, <2>3, LoadsFacts
  <2>5. \A i \in 1..Len(listeners) :
          [listeners[i] EXCEPT !.prefix = Ls!Normalised(listeners[i].prefix), !.real = TRUE] = Norm(listeners[i])
    BY <1>1, NormFacts, Zenon
  <2> QED  BY <1>1, <2>2, <2>3, <2>4, <2>5, Zenon
<1>5. \A i, j \in DOMAIN listeners :
        listeners[i].real /\ listeners[j].real /\ Ls!Overlap(listeners[i], listeners[j]) => i = j
  BY <1>1 DEF ListenersInv, Separate
<1> QED  BY <1>2, <1>3, <1>4, <1>5, Zenon DEF Ls!PortsKept

LEMMA ListenersNext ==
  ListenersInv /\ [PartsNext]_<<part, vars, wbVars, slVars, mhVars, ownVars>> => ListenersInv'
<1>1. ASSUME PartsNext PROVE Ls!Next \/ UNCHANGED lsVars
  BY <1>1 DEF PartsNext, ownVars
<1> QED  BY <1>1, ListenersStep, ListenersStutter DEF ownVars

-----------------------------------------------------------------------------
(* Lists of modules: sequences and what is in them *)

IsList(s) == \E S : s \in Seq(S)
Unlike(s) == \A i, j \in 1..Len(s) : s[i] = s[j] => i = j

LEMMA ListOf ==
  ASSUME NEW s, IsList(s)
  PROVE  /\ s \in Seq(Ml!ToSet(s)) /\ Len(s) \in Nat /\ DOMAIN s = 1..Len(s)
         /\ Ml!ToSet(s) = {s[i] : i \in 1..Len(s)}
<1>1. PICK S : s \in Seq(S)  BY DEF IsList
<1>2. Len(s) \in Nat /\ DOMAIN s = 1..Len(s)  BY <1>1
<1>3. Ml!ToSet(s) = {s[i] : i \in 1..Len(s)}  BY <1>2 DEF Ml!ToSet
<1>4. s = [i \in 1..Len(s) |-> s[i]]  BY <1>1
<1>5. s \in Seq(Ml!ToSet(s))  BY <1>2, <1>3, <1>4
<1> QED  BY <1>2, <1>3, <1>5

LEMMA SetFinite == ASSUME NEW s, IsList(s) PROVE IsFiniteSet(Ml!ToSet(s))
<1> DEFINE T == Ml!ToSet(s)
           n == Len(s)
           f == [i \in 1..n |-> s[i]]
<1>1. n \in Nat /\ T = {s[i] : i \in 1..n}  BY ListOf, Zenon
<1> HIDE DEF T, n
<1>2. f \in [1..n -> T] /\ \A t \in T : \E i \in 1..n : f[i] = t  BY <1>1
<1> HIDE DEF f
<1>3. f \in Surjection(1..n, T)  BY <1>2, Fun_IsSurj, Zenon
<1>4. ExistsSurjection(1..n, T)  BY <1>3 DEF ExistsSurjection
<1>5. IsFiniteSet(T)  BY <1>1, <1>4, FS_NatSurjection
<1> QED  BY <1>5 DEF T

LEMMA ListEmpty == IsList(<<>>) /\ Ml!ToSet(<<>>) = {} /\ Len(<<>>) = 0 /\ Unlike(<<>>)
  BY DEF IsList, Ml!ToSet, Unlike

LEMMA ListAppend ==
  ASSUME NEW s, IsList(s), NEW e
  PROVE  LET t == Append(s, e) IN
         /\ IsList(t) /\ Ml!ToSet(t) = Ml!ToSet(s) \cup {e} /\ Len(t) = Len(s) + 1
         /\ t[Len(s) + 1] = e /\ \A i \in 1..Len(s) : t[i] = s[i]
         /\ Unlike(s) /\ e \notin Ml!ToSet(s) => Unlike(t)
<1> DEFINE T == Ml!ToSet(s) \cup {e}
           t == Append(s, e)
           n == Len(s)
<1>1. s \in Seq(Ml!ToSet(s)) /\ n \in Nat /\ Ml!ToSet(s) = {s[i] : i \in 1..n}  BY ListOf
<1>2. s \in Seq(T)
  <2>1. Ml!ToSet(s) \subseteq T  OBVIOUS
  <2> HIDE DEF T
  <2> QED  BY <1>1, <2>1
<1>3. e \in T  OBVIOUS
<1> HIDE DEF T
<1>4. t \in Seq(T) /\ Len(t) = n + 1 /\ t[n + 1] = e /\ \A i \in 1..n : t[i] = s[i]  BY <1>2, <1>3
<1> HIDE DEF t, n
<1>5. IsList(t)  BY <1>4 DEF IsList
<1>6. Ml!ToSet(t) = {t[i] : i \in 1..(n + 1)}  BY <1>4, <1>5, ListOf
<1>7. 1..(n + 1) = 1..n \cup {n + 1}  BY <1>1
<1>8. Ml!ToSet(t) = Ml!ToSet(s) \cup {e}  BY <1>1, <1>4, <1>6, <1>7
<1>9. ASSUME Unlike(s), e \notin Ml!ToSet(s) PROVE Unlike(t)
  <2>1. \A i \in 1..n : s[i] # e  BY <1>1, <1>9
  <2>2. \A i, j \in 1..n : s[i] = s[j] => i = j  BY <1>9 DEF Unlike, n
  <2> SUFFICES ASSUME NEW i \in 1..Len(t), NEW j \in 1..Len(t), t[i] = t[j] PROVE i = j  BY DEF Unlike
  <2>3. i \in 1..n \/ i = n + 1  BY <1>1, <1>4
  <2>4. j \in 1..n \/ j = n + 1  BY <1>1, <1>4
  <2> QED  BY <1>4, <2>1, <2>2, <2>3, <2>4
<1> QED  BY <1>4, <1>5, <1>8, <1>9 DEF t, n

LEMMA ListRemove ==
  ASSUME NEW s, IsList(s), NEW x \in 1..Len(s)
  PROVE  LET t == Ml!RemoveAt(s, x) IN
         /\ IsList(t) /\ Len(t) = Len(s) - 1
         /\ \A k \in 1..Len(s) - 1 : t[k] = IF k < x THEN s[k] ELSE s[k + 1]
         /\ Ml!ToSet(t) \subseteq Ml!ToSet(s)
         /\ Unlike(s) => Unlike(t) /\ Ml!ToSet(t) = Ml!ToSet(s) \ {s[x]}
<1> DEFINE t == Ml!RemoveAt(s, x)
           n == Len(s)
           f(k) == IF k < x THEN k ELSE k + 1
<1>0. n \in Nat /\ s \in Seq(Ml!ToSet(s)) /\ Ml!ToSet(s) = {s[i] : i \in 1..n}  BY ListOf, Zenon
<1>1. t \in Seq(Ml!ToSet(s)) /\ Len(t) = n - 1 /\ \A k \in 1..n - 1 : t[k] = IF k < x THEN s[k] ELSE s[k + 1]
  BY <1>0, RemovedFacts, Zenon DEF Ml!RemoveAt
<1> HIDE DEF t, n
<1>a. x \in 1..n /\ n \in Nat  BY <1>0 DEF n
<1>b. \A k \in 1..n - 1 : f(k) \in 1..n /\ f(k) # x  BY <1>a
<1>2. \A k \in 1..n - 1 : f(k) \in 1..n /\ f(k) # x /\ t[k] = s[f(k)]
  <2>1. \A k \in 1..n - 1 : t[k] = s[f(k)]  BY <1>1
  <2> QED  BY <1>b, <2>1
<1>3. \A j, k \in 1..n - 1 : f(j) = f(k) => j = k  BY <1>a
<1>4. \A i \in 1..n : i # x => \E k \in 1..n - 1 : f(k) = i
  <2> SUFFICES ASSUME NEW i \in 1..n, i # x PROVE \E k \in 1..n - 1 : f(k) = i  OBVIOUS
  <2> DEFINE k == IF i < x THEN i ELSE i - 1
  <2>1. k \in 1..n - 1 /\ f(k) = i  BY <1>a
  <2> QED  BY <2>1
<1> HIDE DEF f
<1>5. IsList(t)  BY <1>1 DEF IsList
<1>6. Ml!ToSet(t) = {t[k] : k \in 1..n - 1}  BY <1>1, <1>5, ListOf, Zenon
<1>7. Ml!ToSet(t) \subseteq Ml!ToSet(s)  BY <1>0, <1>2, <1>6, Zenon
<1>8. ASSUME Unlike(s) PROVE Unlike(t) /\ Ml!ToSet(t) = Ml!ToSet(s) \ {s[x]}
  <2>0. \A i, j \in 1..n : s[i] = s[j] => i = j  BY <1>8 DEF Unlike, n
  <2>1. Unlike(t)
    <3> SUFFICES ASSUME NEW j \in 1..n - 1, NEW k \in 1..n - 1, t[j] = t[k] PROVE j = k
      BY <1>1 DEF Unlike
    <3>1. f(j) = f(k)  BY <1>2, <2>0
    <3> QED  BY <1>3, <3>1
  <2>2. \A a \in Ml!ToSet(t) : a \in Ml!ToSet(s) /\ a # s[x]  BY <1>0, <1>2, <1>6, <1>a, <2>0
  <2>3. ASSUME NEW a \in Ml!ToSet(s), a # s[x] PROVE a \in Ml!ToSet(t)
    <3>1. PICK i \in 1..n : a = s[i]  BY <1>0, Zenon
    <3>2. i # x  BY <2>3, <3>1
    <3>3. PICK k \in 1..n - 1 : f(k) = i  BY <1>4, <3>2
    <3> QED  BY <1>2, <1>6, <3>1, <3>3
  <2> QED  BY <2>1, <2>2, <2>3
<1> QED  BY <1>1, <1>5, <1>7, <1>8 DEF t, n

Swapped(s, i, j) == [s EXCEPT ![i] = s[j], ![j] = s[i]]

LEMMA ListSwap ==
  ASSUME NEW s, IsList(s), NEW i \in 1..Len(s), NEW j \in 1..Len(s)
  PROVE  LET t == Swapped(s, i, j) IN
         /\ IsList(t) /\ Len(t) = Len(s)
         /\ \A k \in 1..Len(s) : t[k] = IF k = j THEN s[i] ELSE IF k = i THEN s[j] ELSE s[k]
<1> DEFINE T == Ml!ToSet(s)
           n == Len(s)
           u == [s EXCEPT ![i] = s[j]]
           t == [u EXCEPT ![j] = s[i]]
<1>1. Swapped(s, i, j) = t  BY DEF Swapped
<1>2. s \in Seq(T) /\ n \in Nat /\ s[i] \in T /\ s[j] \in T  BY ListOf
<1> HIDE DEF T
<1>3. u \in Seq(T) /\ Len(u) = n /\ \A k \in 1..n : u[k] = IF k = i THEN s[j] ELSE s[k]  BY <1>2
<1> HIDE DEF u
<1>4. t \in Seq(T) /\ Len(t) = n /\ \A k \in 1..n : t[k] = IF k = j THEN s[i] ELSE u[k]  BY <1>2, <1>3
<1> HIDE DEF t
<1>5. IsList(t)  BY <1>4 DEF IsList
<1>6. \A k \in 1..n : t[k] = IF k = j THEN s[i] ELSE IF k = i THEN s[j] ELSE s[k]  BY <1>3, <1>4
<1> QED  BY <1>1, <1>4, <1>5, <1>6, Zenon

\* The order that SetToSeq chooses.
LEMMA SetAsList ==
  ASSUME NEW T, IsFiniteSet(T)
  PROVE  LET s == Ml!SetToSeq(T) IN IsList(s) /\ Ml!ToSet(s) = T /\ Unlike(s)
<1> DEFINE n == Cardinality(T)
           Good(f) == f \in [1..n -> T] /\ Ml!IsInjective(f)
           s == CHOOSE f \in [1..n -> T] : Ml!IsInjective(f)
<1>0. Ml!Cardinality(T) = Cardinality(T)  BY DEF Ml!Cardinality, Cardinality
<1>1. Ml!SetToSeq(T) = s  BY <1>0 DEF Ml!SetToSeq
<1>2. n \in Nat /\ ExistsBijection(1..n, T)  BY FS_CardinalityType
<1> HIDE DEF n
<1>3. PICK g : g \in Bijection(1..n, T)  BY <1>2 DEF ExistsBijection
<1>4. g \in [1..n -> T] /\ Ml!IsInjective(g)
  <2>1. g \in [1..n -> T] /\ \A a, b \in 1..n : g[a] = g[b] => a = b
    BY <1>3 DEF Bijection, Injection, Surjection, IsInjective
  <2> QED  BY <2>1 DEF Ml!IsInjective
<1>5. s \in [1..n -> T] /\ Ml!IsInjective(s)  BY <1>4
<1> HIDE DEF s
<1>6. \A a, b \in 1..n : s[a] = s[b] => a = b  BY <1>5 DEF Ml!IsInjective
<1>7. s \in Seq(T) /\ Len(s) = n  BY <1>2, <1>5
<1>8. IsList(s)  BY <1>7 DEF IsList
<1>9. \A t \in T : \E i \in 1..n : s[i] = t
  <2>1. s \in Injection(1..n, T)  BY <1>5, <1>6 DEF Injection, IsInjective
  <2>2. IsFiniteSet(1..n) /\ Cardinality(1..n) = n
    <3>1. 1 \in Int /\ n \in Int  BY <1>2
    <3>2. IsFiniteSet(1..n) /\ Cardinality(1..n) = IF 1 > n THEN 0 ELSE n - 1 + 1  BY <3>1, FS_Interval
    <3> QED  BY <1>2, <3>2
  <2>3. s \in Surjection(1..n, T)  BY <2>1, <2>2, FS_Injection DEF n
  <2> QED  BY <2>3 DEF Surjection
<1>11. Ml!ToSet(s) = {s[i] : i \in 1..n}  BY <1>7, <1>8, ListOf
<1>10. Ml!ToSet(s) = T  BY <1>5, <1>9, <1>11
<1> QED  BY <1>1, <1>6, <1>7, <1>8, <1>10 DEF Unlike
-----------------------------------------------------------------------------
(* What a joined list splits into *)

Rank(I, i) == Ml!Cardinality({j \in I : j <= i})

LEMMA CountTo == ASSUME NEW n \in Nat PROVE IsFiniteSet(1..n) /\ Ml!Cardinality(1..n) = n
<1>1. 1 \in Int /\ n \in Int  OBVIOUS
<1>2. IsFiniteSet(1..n) /\ Cardinality(1..n) = IF 1 > n THEN 0 ELSE n - 1 + 1  BY <1>1, FS_Interval
<1>3. Ml!Cardinality(1..n) = Cardinality(1..n)  BY DEF Ml!Cardinality, Cardinality
<1> QED  BY <1>2, <1>3

LEMMA CountWithout ==
  ASSUME NEW n \in Nat, NEW p \in 1..n PROVE Ml!Cardinality(1..n \ {p}) = n - 1
<1>1. IsFiniteSet(1..n) /\ Cardinality(1..n) = n
  <2>1. Ml!Cardinality(1..n) = Cardinality(1..n)  BY DEF Ml!Cardinality, Cardinality
  <2> QED  BY <2>1, CountTo
<1>2. Cardinality(1..n \ {p}) = Cardinality(1..n) - 1  BY <1>1, FS_RemoveElement, Zenon
<1>3. Ml!Cardinality(1..n \ {p}) = Cardinality(1..n \ {p})  BY DEF Ml!Cardinality, Cardinality
<1> QED  BY <1>1, <1>2, <1>3

Others(t, e) == {i \in DOMAIN t : t[i] # e}
InOrder(t, I) == [k \in 1..Ml!Cardinality(I) |-> t[CHOOSE i \in I : Rank(I, i) = k]]

LEMMA LinesMade == ASSUME NEW t, NEW e PROVE Ml!Lines(t, e) = InOrder(t, Others(t, e))
  BY DEF Ml!Lines, Rank, Others, InOrder

\* A list that has no such entry.
LEMMA LinesAll ==
  ASSUME NEW t, IsList(t), NEW e, \A i \in 1..Len(t) : t[i] # e
  PROVE  Ml!Lines(t, e) = t
<1> DEFINE n == Len(t)
           I == 1..n
<1>1. n \in Nat /\ DOMAIN t = 1..n /\ t = [i \in 1..n |-> t[i]]
  <2>1. t \in Seq(Ml!ToSet(t)) /\ n \in Nat /\ DOMAIN t = 1..n  BY ListOf
  <2> QED  BY <2>1
<1>2. I = {i \in DOMAIN t : t[i] # e}  BY <1>1
<1> HIDE DEF n
<1>3. Ml!Cardinality(I) = n  BY <1>1, CountTo
<1>4. \A i \in I : Rank(I, i) = i
  <2> SUFFICES ASSUME NEW i \in I PROVE Rank(I, i) = i  OBVIOUS
  <2>1. {j \in I : j <= i} = 1..i /\ i \in Nat  BY <1>1
  <2>2. Ml!Cardinality(1..i) = i  BY <2>1, CountTo
  <2> QED  BY <2>1, <2>2, Zenon DEF Rank
<1>5. \A k \in I : (CHOOSE i \in I : Rank(I, i) = k) = k  BY <1>4
<1>6. Ml!Lines(t, e) = [k \in 1..Ml!Cardinality(I) |-> t[CHOOSE i \in I : Rank(I, i) = k]]
  <2> HIDE DEF I
  <2>1. I = Others(t, e)  BY <1>2 DEF Others
  <2>2. Ml!Lines(t, e) = InOrder(t, I)  BY <2>1, LinesMade, Zenon
  <2> QED  BY <2>2, Zenon DEF InOrder
<1>7. Ml!Lines(t, e) = [k \in I |-> t[k]]  BY <1>3, <1>5, <1>6, Zenon
<1> QED  BY <1>1, <1>7

\* A list that has it once.
LEMMA LinesOne ==
  ASSUME NEW s, IsList(s), NEW t, IsList(t), NEW e, Len(t) = Len(s) + 1,
         NEW p \in 1..Len(t), t[p] = e,
         \A k \in 1..Len(s) : s[k] # e /\ t[IF k < p THEN k ELSE k + 1] = s[k]
  PROVE  Ml!Lines(t, e) = s
<1> DEFINE n == Len(s)
           I == 1..(n + 1) \ {p}
           f(k) == IF k < p THEN k ELSE k + 1
<1>1. n \in Nat /\ DOMAIN t = 1..(n + 1) /\ s = [i \in 1..n |-> s[i]] /\ p \in 1..(n + 1)
  <2>1. s \in Seq(Ml!ToSet(s)) /\ n \in Nat /\ DOMAIN t = 1..Len(t)  BY ListOf
  <2> QED  BY <2>1
<1>2. \A k \in 1..n : s[k] # e /\ t[f(k)] = s[k] /\ f(k) \in I  BY <1>1
<1>3. \A i \in I : \E k \in 1..n : f(k) = i
  <2> SUFFICES ASSUME NEW i \in I PROVE \E k \in 1..n : f(k) = i  OBVIOUS
  <2> DEFINE k == IF i < p THEN i ELSE i - 1
  <2>1. k \in 1..n /\ f(k) = i  BY <1>1
  <2> QED  BY <2>1, Zenon
<1>4. \A j, k \in 1..n : f(j) = f(k) => j = k  BY <1>1
<1>5. \A k \in 1..n : Rank(I, f(k)) = k
  <2> SUFFICES ASSUME NEW k \in 1..n PROVE Rank(I, f(k)) = k  OBVIOUS
  <2> HIDE DEF n
  <2>1. CASE k < p
    <3>1. {j \in I : j <= f(k)} = 1..k /\ k \in Nat  BY <1>1, <2>1
    <3>2. Ml!Cardinality(1..k) = k  BY <3>1, CountTo
    <3> QED  BY <3>1, <3>2, Zenon DEF Rank
  <2>2. CASE ~(k < p)
    <3>1. {j \in I : j <= f(k)} = 1..(k + 1) \ {p} /\ p \in 1..(k + 1) /\ k + 1 \in Nat  BY <1>1, <2>2
    <3>2. Ml!Cardinality(1..(k + 1) \ {p}) = k + 1 - 1  BY <3>1, CountWithout
    <3>3. k + 1 - 1 = k  BY <1>1
    <3> HIDE DEF I, f
    <3> QED  BY <3>1, <3>2, <3>3, Zenon DEF Rank
  <2> QED  BY <2>1, <2>2
<1>6. Ml!Cardinality(I) = n
  <2> HIDE DEF n
  <2>1. n + 1 \in Nat  BY <1>1
  <2>2. Ml!Cardinality(I) = n + 1 - 1  BY <1>1, <2>1, CountWithout
  <2> QED  BY <1>1, <2>2
<1>7. I = {i \in DOMAIN t : t[i] # e}
  <2>1. \A i \in I : t[i] # e  BY <1>2, <1>3
  <2> QED  BY <1>1, <2>1
<1>8. Ml!Lines(t, e) = [k \in 1..Ml!Cardinality(I) |-> t[CHOOSE i \in I : Rank(I, i) = k]]
  <2> HIDE DEF I
  <2>1. I = Others(t, e)  BY <1>7 DEF Others
  <2>2. Ml!Lines(t, e) = InOrder(t, I)  BY <2>1, LinesMade, Zenon
  <2> QED  BY <2>2, Zenon DEF InOrder
<1> HIDE DEF n, I, f
<1>9. \A k \in 1..n : t[CHOOSE i \in I : Rank(I, i) = k] = s[k]
  <2> SUFFICES ASSUME NEW k \in 1..n PROVE t[CHOOSE i \in I : Rank(I, i) = k] = s[k]  OBVIOUS
  <2>1. f(k) \in I /\ Rank(I, f(k)) = k  BY <1>2, <1>5
  <2>2. \A i \in I : Rank(I, i) = k => i = f(k)  BY <1>3, <1>5
  <2>3. (CHOOSE i \in I : Rank(I, i) = k) = f(k)  BY <2>1, <2>2
  <2> QED  BY <1>2, <2>3, Zenon
<1> QED  BY <1>1, <1>6, <1>8, <1>9

LEMMA LinesNone ==
  ASSUME NEW t, IsList(t), NEW e, \A i \in 1..Len(t) : t[i] = e
  PROVE  Ml!Lines(t, e) = <<>>
<1>1. {} = {i \in DOMAIN t : t[i] # e}  BY ListOf
<1>2. Ml!Cardinality({}) = 0
  <2>1. Ml!Cardinality({}) = Cardinality({})  BY DEF Ml!Cardinality, Cardinality
  <2> QED  BY <2>1, FS_EmptySet
<1>3. Ml!Lines(t, e) = [k \in 1..Ml!Cardinality({}) |-> t[CHOOSE i \in {} : Rank({}, i) = k]]
  <2>1. Others(t, e) = {}  BY <1>1 DEF Others
  <2>2. Ml!Lines(t, e) = InOrder(t, {})  BY <2>1, LinesMade, Zenon
  <2> QED  BY <2>2, Zenon DEF InOrder
<1> QED  BY <1>2, <1>3

\* The others are counted off without a gap.
LEMMA RankOnto ==
  ASSUME NEW n \in Nat, NEW I \in SUBSET (1..n)
  PROVE  /\ Ml!Cardinality(I) \in Nat
         /\ \A k \in 1..Ml!Cardinality(I) : \E i \in I : Rank(I, i) = k
<1> DEFINE m == Cardinality(I)
           Below(i) == {j \in I : j <= i}
           f == [i \in I |-> Cardinality(Below(i))]
<1>0. \A T : Ml!Cardinality(T) = Cardinality(T)  BY DEF Ml!Cardinality, Cardinality
<1>1. IsFiniteSet(I) /\ m \in Nat
  <2>1. IsFiniteSet(1..n)  BY CountTo
  <2> QED  BY <2>1, FS_Subset, FS_CardinalityType, Zenon
<1>2. \A i \in I : IsFiniteSet(Below(i)) /\ Cardinality(Below(i)) \in 1..m
  <2> SUFFICES ASSUME NEW i \in I PROVE IsFiniteSet(Below(i)) /\ Cardinality(Below(i)) \in 1..m  OBVIOUS
  <2>1. Below(i) \in SUBSET I /\ {i} \in SUBSET Below(i)  OBVIOUS
  <2> HIDE DEF Below
  <2>2. IsFiniteSet(Below(i)) /\ Cardinality(Below(i)) <= m  BY <1>1, <2>1, FS_Subset
  <2>3. Cardinality({i}) <= Cardinality(Below(i))  BY <2>1, <2>2, FS_Subset
  <2>4. Cardinality({i}) = 1  BY FS_Singleton, Zenon
  <2>5. Cardinality(Below(i)) \in Nat  BY <2>2, FS_CardinalityType
  <2> QED  BY <1>1, <2>2, <2>3, <2>4, <2>5
<1>3. ASSUME NEW i \in I, NEW j \in I, i < j PROVE Cardinality(Below(i)) < Cardinality(Below(j))
  <2>0. \A k \in I : k \in Int  OBVIOUS
  <2>1. Below(i) \in SUBSET Below(j) /\ j \in Below(j) /\ j \notin Below(i)
    <3>1. \A k \in I : k <= i => k <= j  BY <1>3, <2>0
    <3>2. j <= j /\ ~(j <= i)  BY <1>3, <2>0
    <3> QED  BY <3>1, <3>2, Zenon
  <2> HIDE DEF Below
  <2>2. Cardinality(Below(i)) <= Cardinality(Below(j))  BY <1>2, <2>1, FS_Subset
  <2>3. Cardinality(Below(j)) = Cardinality(Below(i)) => Below(j) = Below(i)  BY <1>2, <2>1, FS_Subset
  <2>4. Cardinality(Below(i)) \in 1..m /\ Cardinality(Below(j)) \in 1..m  BY <1>2
  <2> HIDE DEF m
  <2> QED  BY <1>1, <2>1, <2>2, <2>3, <2>4
<1>4. f \in [I -> 1..m]  BY <1>2
<1>5. \A i, j \in I : f[i] = f[j] => i = j
  <2> SUFFICES ASSUME NEW i \in I, NEW j \in I, f[i] = f[j], i # j PROVE FALSE  OBVIOUS
  <2>1. i < j \/ j < i  OBVIOUS
  <2>2. Cardinality(Below(i)) = Cardinality(Below(j)) /\ Cardinality(Below(i)) \in 1..m  BY <1>2
  <2>3. Cardinality(Below(i)) < Cardinality(Below(j)) \/ Cardinality(Below(j)) < Cardinality(Below(i))  BY <1>3, <2>1
  <2> HIDE DEF Below, m
  <2> QED  BY <1>1, <2>2, <2>3
<1>6. \A i \in I : f[i] = Rank(I, i)
  <2> SUFFICES ASSUME NEW i \in I PROVE f[i] = Rank(I, i)  OBVIOUS
  <2> QED  BY <1>0 DEF Rank
<1> HIDE DEF f
<1>7. f \in Injection(I, 1..m)  BY <1>4, <1>5 DEF Injection, IsInjective
<1> HIDE DEF m
<1>8. IsFiniteSet(1..m) /\ Cardinality(1..m) = m
  <2>1. Ml!Cardinality(1..m) = Cardinality(1..m)  BY <1>0
  <2> QED  BY <1>1, <2>1, CountTo
<1>9. f \in Surjection(I, 1..m)  BY <1>7, <1>8, FS_Injection DEF m
<1>10. \A k \in 1..m : \E i \in I : f[i] = k  BY <1>9 DEF Surjection
<1>11. Ml!Cardinality(I) = m  BY <1>0 DEF m
<1> QED  BY <1>1, <1>6, <1>10, <1>11

LEMMA LinesFrom ==
  ASSUME NEW S, NEW t \in Seq(S), NEW e PROVE Ml!Lines(t, e) \in Seq(S \ {e})
<1> DEFINE I == Others(t, e)
           m == Ml!Cardinality(I)
           pick(k) == CHOOSE i \in I : Rank(I, i) = k
<1>1. Len(t) \in Nat /\ I \in SUBSET (1..Len(t)) /\ \A i \in I : t[i] \in S \ {e}  BY DEF Others
<1> HIDE DEF I
<1>2. m \in Nat /\ \A k \in 1..m : \E i \in I : Rank(I, i) = k  BY <1>1, RankOnto, Zenon
<1> HIDE DEF m
<1>3. \A k \in 1..m : pick(k) \in I  BY <1>2
<1> HIDE DEF pick
<1>4. [k \in 1..m |-> t[pick(k)]] \in Seq(S \ {e})
  <2>1. \A k \in 1..m : t[pick(k)] \in S \ {e}  BY <1>1, <1>3, Zenon
  <2> DEFINE T == S \ {e}
             g(k) == t[pick(k)]
  <2>2. \A k \in 1..m : g(k) \in T  BY <2>1
  <2> HIDE DEF T, g
  <2>3. [k \in 1..m |-> g(k)] \in Seq(T)  BY <1>2, <2>2
  <2> QED  BY <2>3 DEF T, g
<1>5. Ml!Lines(t, e) = [k \in 1..m |-> t[pick(k)]]
  <2>1. Ml!Lines(t, e) = InOrder(t, I)  BY LinesMade, Zenon DEF I
  <2> QED  BY <2>1, Zenon DEF InOrder, m, pick
<1> QED  BY <1>4, <1>5
-----------------------------------------------------------------------------
(* One module at a time *)

LEMMA ListedLoads ==
  /\ list = "watch" => Ml!Loaded = Ml!WatchLoaded(entriesReg)
  /\ list = "perform" => Ml!Loaded = Ml!PerformLoaded(entriesReg)
  /\ list = "alias" => Ml!Loaded = Ml!AliasGet(entriesReg)
  /\ list = "autocycle" => Ml!Loaded = Ml!CycleLoaded(entriesReg, args)
  /\ list = "autoattach" => Ml!Loaded = Ml!AttachLoaded(entriesReg, args)
  /\ list = "certauth" => Ml!Loaded = Ml!OnBoot(Ml!NoKeys, entriesReg, known)
  /\ list = "autoop" => Ml!Loaded = Ml!OpLoaded(entriesReg)
  /\ list = "autovoice" => Ml!Loaded = Ml!VoiceLoaded(entriesReg, args)
  BY DEF Ml!Loaded

LEMMA ListedStores ==
  /\ list = "perform" => Ml!Stored = Ml!Loaded
  /\ list \in {"autocycle", "autoattach"} => Ml!Stored = entriesReg \cup Ml!ToSet(Ml!Loaded)
  /\ list \in {"watch", "alias", "certauth", "autoop", "autovoice"} => Ml!Stored = entriesReg
<1> HIDE DEF Ml!Loaded
<1>1. list = "perform" => Ml!Stored = Ml!Loaded  BY DEF Ml!Stored
<1>2. list \in {"autocycle", "autoattach"} => Ml!Stored = entriesReg \cup Ml!ToSet(Ml!Loaded)  BY DEF Ml!Stored
<1>3. list \in {"watch", "alias", "certauth", "autoop", "autovoice"} => Ml!Stored = entriesReg  BY DEF Ml!Stored
<1> QED  BY <1>1, <1>2, <1>3

LEMMA ListedInit ==
  ASSUME Ml!Init
  PROVE  /\ list \in Ml!ListModules /\ known = Ml!Owners /\ skew = FALSE /\ entries = Ml!Loaded
         /\ list = "watch" => entriesReg = {}
         /\ list = "autocycle" => entriesReg = Ml!ToSet(Ml!CycleLoaded({}, args))
         /\ list = "autoattach" => entriesReg = Ml!ToSet(args)
         /\ list = "alias" => entriesReg = [exists |-> FALSE, cmds |-> <<>>]
         /\ list \in {"perform", "autoop", "autovoice", "certauth"} => entriesReg = <<>>
  BY DEF Ml!Init

LEMMA ListedNext ==
  ASSUME Ml!Next
  PROVE  /\ list' = list /\ args' = args
         /\ \/ entries' = Ml!Loaded /\ entriesReg' = Ml!Stored /\ known' = known /\ skew' = skew
            \/ /\ known' = known /\ skew' = skew
               /\ \/ /\ list = "watch"
                     /\ Ml!Watch \/ Ml!WatchRemove \/ Ml!WatchClear \/ Ml!WatchSet \/ Ml!WatchSetSources
                  \/ /\ list = "perform"
                     /\ Ml!PerformAdd \/ Ml!PerformDel \/ Ml!PerformSwap \/ Ml!PerformPost
                  \/ /\ list = "alias"
                     /\ \/ Ml!CreateCommand \/ Ml!DeleteCommand \/ Ml!AddCmd
                        \/ Ml!InsertCommand \/ Ml!RemoveCommand \/ Ml!ClearCommand
                  \/ list = "autocycle" /\ (Ml!CycleAdd \/ Ml!CycleDel)
                  \/ list = "autoattach" /\ (Ml!AttachAdd \/ Ml!AttachDel \/ Ml!AttachSwap)
            \/ /\ list = "autoop" /\ ~skew /\ known' = known
               /\ Ml!OpAddUser \/ Ml!OpDelUser \/ Ml!OpAddChans \/ Ml!OpDelChans \/ Ml!OpAddMasks \/ Ml!OpDelMasks
            \/ /\ list = "autovoice" /\ ~skew /\ known' = known
               /\ Ml!VoiceAddUser \/ Ml!VoiceDelUser \/ Ml!VoiceAddChans \/ Ml!VoiceDelChans
            \/ /\ list = "certauth" /\ ~skew
               /\ Ml!AddKey \/ Ml!DelKey \/ Ml!OnPostRehash \/ Ml!AddOwner \/ Ml!DelOwner
  BY DEF Ml!Next, Ml!Only, Ml!Reload

LEMMA ListMade ==
  ASSUME NEW n \in Nat, NEW f, f = [i \in 1..n |-> f[i]]
  PROVE  IsList(f) /\ Len(f) = n
<1> DEFINE S == {f[i] : i \in 1..n}
<1>1. \A i \in 1..n : f[i] \in S  OBVIOUS
<1> HIDE DEF S
<1>2. f \in Seq(S) /\ Len(f) = n  BY <1>1
<1> QED  BY <1>2, Zenon DEF IsList
-----------------------------------------------------------------------------
(* watch *)

WatchInv == IsList(entries) /\ entriesReg = Ml!ToSet(entries)

LEMMA WatchSaved == ASSUME NEW l PROVE Ml!WatchSave(l) = Ml!ToSet(l)  BY DEF Ml!WatchSave

LEMMA WatchReads ==
  ASSUME NEW s, IsList(s)
  PROVE  IsList(Ml!WatchLoaded(Ml!ToSet(s))) /\ Ml!ToSet(Ml!WatchLoaded(Ml!ToSet(s))) = Ml!ToSet(s)
<1> DEFINE T == Ml!ToSet(s)
<1>1. IsFiniteSet(T)  BY SetFinite
<1> HIDE DEF T
<1>2. IsList(Ml!SetToSeq(T)) /\ Ml!ToSet(Ml!SetToSeq(T)) = T  BY <1>1, SetAsList
<1>3. Ml!WatchLoaded(T) = Ml!SetToSeq(T)  BY DEF Ml!WatchLoaded
<1>4. IsList(Ml!WatchLoaded(T)) /\ Ml!ToSet(Ml!WatchLoaded(T)) = T  BY <1>2, <1>3, Zenon
<1> QED  BY <1>4 DEF T

LEMMA WatchInit == ASSUME Ml!Init, list = "watch" PROVE WatchInv
<1>1. entriesReg = {} /\ entries = Ml!WatchLoaded(entriesReg)  BY ListedInit, ListedLoads
<1>2. entriesReg = Ml!ToSet(<<>>) /\ IsList(<<>>)  BY <1>1, ListEmpty
<1>3. IsList(Ml!WatchLoaded(entriesReg)) /\ Ml!ToSet(Ml!WatchLoaded(entriesReg)) = entriesReg
  BY <1>2, WatchReads, Zenon
<1> QED  BY <1>1, <1>3, Zenon DEF WatchInv

LEMMA WatchStep ==
  ASSUME WatchInv, Ml!Watch \/ Ml!WatchRemove \/ Ml!WatchClear \/ Ml!WatchSet \/ Ml!WatchSetSources
  PROVE  WatchInv'
<1> DEFINE n == Len(entries)
<1>0. IsList(entries) /\ n \in Nat /\ DOMAIN entries = 1..n  BY ListOf DEF WatchInv
<1>1. entriesReg' = Ml!WatchSave(entries')
  BY DEF Ml!Watch, Ml!WatchRemove, Ml!WatchClear, Ml!WatchSet, Ml!WatchSetSources
<1>2. IsList(entries')
  <2>1. CASE Ml!Watch
    <3>1. PICK k \in {"a", "A", "*"}, t \in {"t", "u"} :
            entries' = entries \/ entries' = Append(entries, Ml!WatchEntry(k, t))
      BY <2>1 DEF Ml!Watch
    <3> HIDE DEF Ml!WatchEntry
    <3>2. IsList(Append(entries, Ml!WatchEntry(k, t)))  BY <1>0, ListAppend
    <3> QED  BY <1>0, <3>1, <3>2, Zenon
  <2>2. CASE Ml!WatchRemove
    <3>1. PICK i \in 1..n : entries' = Ml!RemoveAt(entries, i)  BY <2>2 DEF Ml!WatchRemove
    <3> QED  BY <1>0, <3>1, ListRemove
  <2>3. CASE Ml!WatchClear  BY <2>3, ListEmpty DEF Ml!WatchClear
  <2>4. CASE Ml!WatchSet
    <3>1. PICK f \in {"off", "client", "chan"}, b \in BOOLEAN, I \in {{i} : i \in 1..Len(entries)} \union {1..Len(entries)} :
            /\ entries' = [i \in 1..Len(entries) |-> IF i \in I THEN [entries[i] EXCEPT ![f] = b] ELSE entries[i]]
            /\ entriesReg' = Ml!WatchSave(entries')
      BY <2>4, Zenon DEF Ml!WatchSet
    <3> DEFINE e(i) == IF i \in I THEN [entries[i] EXCEPT ![f] = b] ELSE entries[i]
    <3>2. entries' = [i \in 1..n |-> e(i)]  BY <3>1
    <3> HIDE DEF e, n
    <3>3. entries' = [i \in 1..n |-> entries'[i]]  BY <3>2
    <3> QED  BY <1>0, <3>3, ListMade
  <2>5. CASE Ml!WatchSetSources
    <3>1. PICK i \in 1..n : \E S \in {{}, {[neg |-> FALSE, name |-> "A"]},
                                  {[neg |-> FALSE, name |-> "*"], [neg |-> TRUE, name |-> "a"]}} :
                              entries' = [entries EXCEPT ![i].sources = S]
      BY <2>5, Zenon DEF Ml!WatchSetSources
    <3>2. PICK S : entries' = [entries EXCEPT ![i].sources = S]  BY <3>1, Zenon
    <3> DEFINE v == [entries[i] EXCEPT !.sources = S]
    <3>3. entries' = [entries EXCEPT ![i] = v]  BY <3>2
    <3> HIDE DEF v, n
    <3>4. entries' = [j \in 1..n |-> entries'[j]]  BY <1>0, <3>3, Zenon
    <3> QED  BY <1>0, <3>4, ListMade
  <2> QED  BY <2>1, <2>2, <2>3, <2>4, <2>5
<1>3. Ml!WatchSave(entries') = Ml!ToSet(entries')  BY WatchSaved
<1> QED  BY <1>1, <1>2, <1>3 DEF WatchInv

LEMMA WatchReload ==
  ASSUME WatchInv, list = "watch", entries' = Ml!Loaded, entriesReg' = Ml!Stored PROVE WatchInv'
<1>1. entries' = Ml!WatchLoaded(Ml!ToSet(entries)) /\ entriesReg' = Ml!ToSet(entries)
  BY ListedLoads, ListedStores DEF WatchInv
<1>2. IsList(entries)  BY DEF WatchInv
<1> QED  BY <1>1, <1>2, WatchReads DEF WatchInv

\* Who gets a copy depends on what is in the list.
Copies(T, nick, source, attached_, detached) ==
  {e.target : e \in {x \in T : /\ ~(attached_ /\ x.client)
                               /\ ~(source = "a" /\ ~detached /\ x.chan)
                               /\ Ml!IsMatch(x, nick, source)}}

WatchDoes(T) == [n \in {"a", "b"}, s \in {"none", "a", "priv"}, att, det \in BOOLEAN |-> Copies(T, n, s, att, det)]

LEMMA WatchSame ==
  ASSUME list = "watch", NEW l, NEW k, Ml!ToSet(l) = Ml!ToSet(k) PROVE Ml!Does(l) = Ml!Does(k)
<1>1. ASSUME NEW s PROVE Ml!Does(s) = WatchDoes(Ml!ToSet(s))
  <2>1. Ml!Does(s) = [n \in {"a", "b"}, c \in {"none", "a", "priv"}, att, det \in BOOLEAN |->
                           Ml!Process(s, n, c, att, det)]
    BY DEF Ml!Does
  <2>2. WatchDoes(Ml!ToSet(s)) = [n \in {"a", "b"}, c \in {"none", "a", "priv"}, att, det \in BOOLEAN |->
                           Ml!Process(s, n, c, att, det)]
    BY DEF WatchDoes, Copies, Ml!Process
  <2> QED  BY <2>1, <2>2
<1>2. WatchDoes(Ml!ToSet(l)) = WatchDoes(Ml!ToSet(k))  BY Zenon
<1> QED  BY <1>1, <1>2, Zenon

LEMMA WatchRight == ASSUME WatchInv, list = "watch" PROVE Ml!Does(Ml!Loaded) = Ml!Does(entries)
<1>1. IsList(entries) /\ Ml!Loaded = Ml!WatchLoaded(Ml!ToSet(entries))  BY ListedLoads DEF WatchInv
<1>2. Ml!ToSet(Ml!Loaded) = Ml!ToSet(entries)
  <2>1. Ml!ToSet(Ml!WatchLoaded(Ml!ToSet(entries))) = Ml!ToSet(entries)  BY <1>1, WatchReads
  <2> QED  BY <1>1, <2>1, Zenon
<1> QED  BY <1>2, WatchSame

-----------------------------------------------------------------------------
(* perform *)

Cmds == [layers : 0..2, text : {"p", "empty"}]

PerformInv == entries \in Seq(Cmds) /\ entriesReg = entries

LEMMA ParsedTyped ==
  ASSUME NEW l \in Seq(Cmds)
  PROVE  /\ Ml!Parsed(l) \in Seq(Cmds)
         /\ (\A i \in 1..Len(l) : l[i].layers = 0) => Ml!Parsed(l) = l
<1>1. \A c \in Cmds : Ml!ParsePerform(c) \in Cmds /\ (c.layers = 0 => Ml!ParsePerform(c) = c)
  <2> SUFFICES ASSUME NEW c \in Cmds PROVE Ml!ParsePerform(c) \in Cmds /\ (c.layers = 0 => Ml!ParsePerform(c) = c)
    OBVIOUS
  <2>1. Ml!ParsePerform(c) = [c EXCEPT !.layers = IF c.layers > 0 THEN c.layers - 1 ELSE 0]  BY DEF Ml!ParsePerform
  <2>2. c.layers \in 0..2  BY DEF Cmds
  <2>3. (IF c.layers > 0 THEN c.layers - 1 ELSE 0) \in 0..2  BY <2>2
  <2> QED  BY <2>1, <2>2, <2>3 DEF Cmds
<1>2. Len(l) \in Nat /\ \A i \in 1..Len(l) : l[i] \in Cmds  OBVIOUS
<1> HIDE DEF Cmds
<1>3. Ml!Parsed(l) = [i \in 1..Len(l) |-> Ml!ParsePerform(l[i])]  BY DEF Ml!Parsed
<1>4. Ml!Parsed(l) \in Seq(Cmds)  BY <1>1, <1>2, <1>3
<1>5. ASSUME \A i \in 1..Len(l) : l[i].layers = 0 PROVE Ml!Parsed(l) = l
  <2>1. \A i \in 1..Len(l) : Ml!ParsePerform(l[i]) = l[i]  BY <1>1, <1>2, <1>5
  <2>2. l = [i \in 1..Len(l) |-> l[i]]  OBVIOUS
  <2> QED  BY <1>3, <2>1, <2>2
<1> QED  BY <1>4, <1>5

LEMMA PerformReads == ASSUME NEW r \in Seq(Cmds) PROVE Ml!PerformLoaded(r) \in Seq(Cmds)
<1> DEFINE e == [layers |-> 0, text |-> "empty"]
<1> HIDE DEF e
<1>1. Ml!Lines(r, e) \in Seq(Cmds \ {e})  BY LinesFrom
<1>2. Ml!Lines(r, e) \in Seq(Cmds)
  <2>1. Cmds \ {e} \subseteq Cmds  OBVIOUS
  <2> DEFINE T == Cmds \ {e}
  <2> HIDE DEF T
  <2>2. T \subseteq Cmds /\ Ml!Lines(r, e) \in Seq(T)  BY <1>1, <2>1 DEF T
  <2> QED  BY <2>2
<1>3. Ml!PerformLoaded(r) = Ml!Parsed(Ml!Lines(r, e))  BY DEF Ml!PerformLoaded, e
<1> QED  BY <1>2, <1>3, ParsedTyped

LEMMA PerformInit == ASSUME Ml!Init, list = "perform" PROVE PerformInv
<1> DEFINE e == [layers |-> 0, text |-> "empty"]
<1>1. entriesReg = <<>> /\ entries = Ml!PerformLoaded(entriesReg)  BY ListedInit, ListedLoads
<1>2. Ml!Lines(<<>>, e) = <<>>
  <2> HIDE DEF e
  <2> QED  BY ListEmpty, LinesAll
<1>3. Ml!Parsed(<<>>) = <<>>  BY DEF Ml!Parsed
<1>4. Ml!PerformLoaded(<<>>) = Ml!Parsed(Ml!Lines(<<>>, e))  BY DEF Ml!PerformLoaded
<1>5. entries = <<>>  BY <1>1, <1>2, <1>3, <1>4
<1> HIDE DEF Cmds
<1>6. <<>> \in Seq(Cmds)  OBVIOUS
<1>7. entries \in Seq(Cmds) /\ entriesReg = entries  BY <1>1, <1>5, <1>6, Zenon
<1> QED  BY <1>7 DEF PerformInv

LEMMA PerformStep ==
  ASSUME PerformInv, Ml!PerformAdd \/ Ml!PerformDel \/ Ml!PerformSwap \/ Ml!PerformPost PROVE PerformInv'
<1>0. entries \in Seq(Cmds)  BY DEF PerformInv
<1>i. Ml!PerformInputs \subseteq Cmds  BY DEF Ml!PerformInputs, Cmds
<1>1. entriesReg' = entries'
  BY DEF Ml!PerformAdd, Ml!PerformDel, Ml!PerformSwap, Ml!PerformPost
<1>2. CASE Ml!PerformAdd
  <2>1. PICK c \in Ml!PerformInputs : entries' = Append(entries, Ml!ParsePerform(c))  BY <1>2 DEF Ml!PerformAdd
  <2>2. c \in Cmds  BY <1>i
  <2>3. <<c>> \in Seq(Cmds) /\ Len(<<c>>) = 1  BY <2>2
  <2>4. Ml!Parsed(<<c>>) \in Seq(Cmds)  BY <2>3, ParsedTyped, Zenon
  <2>5. Ml!Parsed(<<c>>)[1] = Ml!ParsePerform(c) /\ Len(Ml!Parsed(<<c>>)) = 1  BY DEF Ml!Parsed
  <2>6. Ml!ParsePerform(c) \in Cmds  BY <2>4, <2>5
  <2> HIDE DEF Cmds
  <2>7. Append(entries, Ml!ParsePerform(c)) \in Seq(Cmds)  BY <1>0, <2>6
  <2> QED  BY <1>1, <2>1, <2>7 DEF PerformInv
<1>3. CASE Ml!PerformDel
  <2>1. PICK i \in 1..Len(entries) : entries' = Ml!RemoveAt(entries, i)  BY <1>3 DEF Ml!PerformDel
  <2>2. Ml!RemoveAt(entries, i) \in Seq(Cmds)  BY <1>0, RemovedFacts DEF Ml!RemoveAt
  <2> QED  BY <1>1, <2>1, <2>2 DEF PerformInv
<1>4. CASE Ml!PerformSwap
  <2>1. PICK i \in 1..Len(entries), j \in 1..Len(entries) :
          entries' = [entries EXCEPT ![i] = entries[j], ![j] = entries[i]]
    BY <1>4, Zenon DEF Ml!PerformSwap
  <2> HIDE DEF Cmds
  <2> DEFINE u == [entries EXCEPT ![i] = entries[j]]
             x == entries[i]
             y == entries[j]
  <2>2. x \in Cmds /\ y \in Cmds  BY <1>0
  <2>3. u \in Seq(Cmds) /\ Len(u) = Len(entries)  BY <1>0, <2>2
  <2>4. entries' = [u EXCEPT ![j] = x]  BY <2>1
  <2> HIDE DEF u, x, y
  <2>5. [u EXCEPT ![j] = x] \in Seq(Cmds)  BY <2>2, <2>3
  <2> QED  BY <1>1, <2>4, <2>5 DEF PerformInv
<1>5. CASE Ml!PerformPost
  <2>1. PICK l \in Ml!BoundedSeq(Ml!PerformInputs, MaxEntries) : entries' = Ml!Parsed(l)  BY <1>5 DEF Ml!PerformPost
  <2>2. PICK k \in 0..MaxEntries : l \in [1..k -> Ml!PerformInputs]  BY DEF Ml!BoundedSeq, Ml!SeqOf
  <2> HIDE DEF Cmds, Ml!PerformInputs
  <2>3. l \in Seq(Cmds)  BY <1>i, <2>2
  <2> QED  BY <1>1, <2>1, <2>3, ParsedTyped DEF PerformInv
<1> QED  BY <1>2, <1>3, <1>4, <1>5

LEMMA PerformReload ==
  ASSUME PerformInv, list = "perform", entries' = Ml!Loaded, entriesReg' = Ml!Stored PROVE PerformInv'
<1>1. entriesReg \in Seq(Cmds) /\ Ml!Loaded = Ml!PerformLoaded(entriesReg) /\ Ml!Stored = Ml!Loaded
  BY ListedLoads, ListedStores DEF PerformInv
<1>2. Ml!PerformLoaded(entriesReg) \in Seq(Cmds)  BY <1>1, PerformReads
<1> QED  BY <1>1, <1>2 DEF PerformInv

LEMMA PerformRight ==
  ASSUME PerformInv, list = "perform", \A c \in Ml!ToSet(entries) : c.layers = 0 /\ c.text # "empty"
  PROVE  Ml!Loaded = entries
<1> DEFINE e == [layers |-> 0, text |-> "empty"]
<1>1. entries \in Seq(Cmds) /\ entriesReg = entries  BY DEF PerformInv
<1>2. IsList(entries)  BY <1>1 DEF IsList
<1>3. \A i \in 1..Len(entries) : entries[i] \in Ml!ToSet(entries)  BY <1>2, ListOf
<1>4. \A i \in 1..Len(entries) : entries[i].layers = 0 /\ entries[i] # e
  <2> SUFFICES ASSUME NEW i \in 1..Len(entries) PROVE entries[i].layers = 0 /\ entries[i] # e  OBVIOUS
  <2>1. entries[i].layers = 0 /\ entries[i].text # "empty"  BY <1>3
  <2>2. e.text = "empty"  OBVIOUS
  <2> HIDE DEF e
  <2> QED  BY <2>1, <2>2
<1>5. Ml!Loaded = Ml!Parsed(Ml!Lines(entries, e))  BY <1>1, ListedLoads DEF Ml!PerformLoaded
<1> HIDE DEF e
<1>6. Ml!Lines(entries, e) = entries  BY <1>2, <1>4, LinesAll
<1>7. Ml!Parsed(entries) = entries  BY <1>1, <1>4, ParsedTyped
<1> QED  BY <1>5, <1>6, <1>7
-----------------------------------------------------------------------------
(* alias *)

Texts == {"p", "q"}

AliasInv == entries \in Seq(Texts) /\ Ml!Lines(entriesReg.cmds, "empty") = entries

\* What a command stores, and reads again.
LEMMA AliasPlain ==
  ASSUME NEW s \in Seq(Texts) PROVE Ml!Lines(s, "empty") = s
<1>1. IsList(s) /\ \A i \in 1..Len(s) : s[i] # "empty"  BY DEF IsList, Texts
<1> QED  BY <1>1, LinesAll

LEMMA InsertedFacts ==
  ASSUME NEW S, NEW s \in Seq(S), NEW e \in S, NEW p \in 1..Len(s) + 1
  PROVE  LET t == Ml!InsertAt(s, p, e) IN
         /\ t \in Seq(S) /\ Len(t) = Len(s) + 1 /\ t[p] = e
         /\ \A k \in 1..Len(s) : t[IF k < p THEN k ELSE k + 1] = s[k]
<1> DEFINE a == SubSeq(s, 1, p - 1)
           b == <<e>>
           c == SubSeq(s, p, Len(s))
           n == Len(s)
<1>0. n \in Nat /\ p \in 1..n + 1 /\ s \in Seq(S)  OBVIOUS
<1>1. a \in Seq(S) /\ Len(a) = p - 1 /\ \A k \in 1..p - 1 : a[k] = s[k]  BY <1>0
<1>2. b \in Seq(S) /\ Len(b) = 1 /\ b[1] = e  OBVIOUS
<1>3. c \in Seq(S) /\ Len(c) = n - p + 1 /\ \A k \in 1..n - p + 1 : c[k] = s[k + p - 1]  BY <1>0
<1> HIDE DEF a, b, c
<1> DEFINE ab == a \o b
<1> HIDE DEF n
<1>p. p \in Nat /\ p >= 1 /\ p - 1 \in Nat /\ (p - 1) + 1 = p /\ n - p + 1 \in Nat  BY <1>0
<1>a. a \in Seq(S) /\ b \in Seq(S) /\ c \in Seq(S)  BY <1>1, <1>2, <1>3
<1>4. ab \in Seq(S) /\ Len(ab) = p /\ ab[p] = e /\ \A k \in 1..p - 1 : ab[k] = s[k]
  <2>1. /\ ab \in Seq(S) /\ Len(ab) = Len(a) + Len(b)
        /\ \A k \in 1..Len(a) + Len(b) : ab[k] = IF k <= Len(a) THEN a[k] ELSE b[k - Len(a)]
    BY <1>a, ConcatProperties
  <2>2. Len(a) + Len(b) = p /\ p - Len(a) = 1 /\ p \in 1..p /\ ~(p <= Len(a))  BY <1>1, <1>2, <1>p
  <2>3. \A k \in 1..p - 1 : k \in 1..p /\ k <= Len(a)  BY <1>1, <1>p
  <2> HIDE DEF ab
  <2> QED  BY <1>1, <1>2, <2>1, <2>2, <2>3
<1> HIDE DEF ab
<1> DEFINE t == ab \o c
<1>5. t \in Seq(S) /\ Len(t) = n + 1
      /\ \A k \in 1..n + 1 : t[k] = IF k <= p THEN ab[k] ELSE c[k - p]
  <2>1. /\ t \in Seq(S) /\ Len(t) = Len(ab) + Len(c)
        /\ \A k \in 1..Len(ab) + Len(c) : t[k] = IF k <= Len(ab) THEN ab[k] ELSE c[k - Len(ab)]
    BY <1>a, <1>4, ConcatProperties, Zenon
  <2>2. Len(ab) + Len(c) = n + 1  BY <1>0, <1>3, <1>4, <1>p
  <2> HIDE DEF t
  <2> QED  BY <1>4, <2>1, <2>2
<1> HIDE DEF t
<1>6. t[p] = e /\ \A k \in 1..p - 1 : t[k] = s[k]
  <2>1. p \in 1..n + 1 /\ p <= p  BY <1>0, <1>p
  <2>2. \A k \in 1..p - 1 : k \in 1..n + 1 /\ k <= p  BY <1>0, <1>p
  <2> QED  BY <1>4, <1>5, <2>1, <2>2
<1>7. \A k \in 1..n : k >= p => t[k + 1] = s[k]
  <2> SUFFICES ASSUME NEW k \in 1..n, k >= p PROVE t[k + 1] = s[k]  OBVIOUS
  <2>1. /\ k + 1 - p \in 1..n - p + 1 /\ k + 1 \in 1..n + 1 /\ ~(k + 1 <= p)
        /\ (k + 1 - p) + p - 1 = k
    BY <1>0, <1>p
  <2>2. t[k + 1] = c[k + 1 - p]  BY <1>5, <2>1
  <2> QED  BY <1>3, <2>1, <2>2
<1>8. Ml!InsertAt(s, p, e) = t  BY DEF Ml!InsertAt, t, ab, a, b, c
<1>9. \A k \in 1..n : t[IF k < p THEN k ELSE k + 1] = s[k]  BY <1>0, <1>6, <1>7
<1> QED  BY <1>5, <1>6, <1>8, <1>9, Zenon DEF n

LEMMA AliasInserted ==
  ASSUME NEW s \in Seq(Texts), NEW c \in {"p", "q", "empty"}, NEW p \in 1..Len(s) + 1
  PROVE  /\ c = "empty" => Ml!Lines(Ml!InsertAt(s, p, c), "empty") = s
         /\ c # "empty" => /\ Ml!InsertAt(s, p, c) \in Seq(Texts)
                           /\ Ml!Lines(Ml!InsertAt(s, p, c), "empty") = Ml!InsertAt(s, p, c)
<1>1. IsList(s) /\ \A i \in 1..Len(s) : s[i] # "empty"  BY DEF IsList, Texts
<1>2. ASSUME c = "empty" PROVE Ml!Lines(Ml!InsertAt(s, p, c), "empty") = s
  <2> DEFINE S == {"p", "q", "empty"}
             t == Ml!InsertAt(s, p, c)
  <2>1. s \in Seq(S) /\ c \in S
    <3>1. Texts \subseteq S  BY DEF Texts
    <3> HIDE DEF Texts, S
    <3>2. s \in Seq(S)  BY <3>1
    <3> QED  BY <3>2 DEF S
  <2> HIDE DEF S
  <2>2. t \in Seq(S) /\ Len(t) = Len(s) + 1 /\ t[p] = c /\ \A k \in 1..Len(s) : t[IF k < p THEN k ELSE k + 1] = s[k]
    BY <2>1, InsertedFacts
  <2> HIDE DEF t
  <2>3. IsList(t) /\ p \in 1..Len(t)  BY <2>2 DEF IsList
  <2> DEFINE e == "empty"
  <2>4. t[p] = e /\ \A k \in 1..Len(s) : s[k] # e /\ t[IF k < p THEN k ELSE k + 1] = s[k]  BY <1>1, <1>2, <2>2
  <2> HIDE DEF e
  <2>5. Ml!Lines(t, e) = s  BY <1>1, <2>2, <2>3, <2>4, LinesOne, Zenon
  <2> QED  BY <2>5 DEF t, e
<1>3. ASSUME c # "empty"
      PROVE  Ml!InsertAt(s, p, c) \in Seq(Texts) /\ Ml!Lines(Ml!InsertAt(s, p, c), "empty") = Ml!InsertAt(s, p, c)
  <2>1. c \in Texts  BY <1>3 DEF Texts
  <2>2. Ml!InsertAt(s, p, c) \in Seq(Texts)  BY <2>1, InsertedFacts
  <2> QED  BY <2>2, AliasPlain
<1> QED  BY <1>2, <1>3

LEMMA AliasCommits ==
  ASSUME NEW c, Ml!Commit(c), entries' \in Seq(Texts), Ml!Lines(c, "empty") = entries' PROVE AliasInv'
<1>1. entriesReg'.cmds = c  BY DEF Ml!Commit
<1> QED  BY <1>1 DEF AliasInv

LEMMA AliasInit == ASSUME Ml!Init, list = "alias" PROVE AliasInv
<1>1. entriesReg.cmds = <<>> /\ entries = Ml!Lines(entriesReg.cmds, "empty")
  BY ListedInit, ListedLoads DEF Ml!AliasGet
<1>2. <<>> \in Seq(Texts)
  <2> HIDE DEF Texts
  <2> QED  OBVIOUS
<1>3. Ml!Lines(<<>>, "empty") = <<>>  BY <1>2, AliasPlain, Zenon
<1>4. Ml!Lines(entriesReg.cmds, "empty") = <<>>  BY <1>1, <1>3
<1> QED  BY <1>1, <1>2, <1>4, Zenon DEF AliasInv

LEMMA AliasStep ==
  ASSUME AliasInv, \/ Ml!CreateCommand \/ Ml!DeleteCommand \/ Ml!AddCmd
                   \/ Ml!InsertCommand \/ Ml!RemoveCommand \/ Ml!ClearCommand
  PROVE  AliasInv'
<1>0. entries \in Seq(Texts) /\ Ml!AliasGet(entriesReg) = entries  BY DEF AliasInv, Ml!AliasGet
<1>n. Len(entries) \in Nat  BY <1>0
<1>e. <<>> \in Seq(Texts)
  <2> HIDE DEF Texts
  <2> QED  OBVIOUS
<1>f. Ml!Lines(<<>>, "empty") = <<>>  BY <1>e, AliasPlain, Zenon
<1>1. CASE Ml!CreateCommand \/ Ml!ClearCommand
  <2>1. Ml!Commit(<<>>) /\ entries' = <<>>  BY <1>1 DEF Ml!CreateCommand, Ml!ClearCommand
  <2> QED  BY <1>e, <1>f, <2>1, AliasCommits
<1>2. CASE Ml!DeleteCommand
  <2>1. entriesReg'.cmds = <<>> /\ entries' = <<>>  BY <1>2 DEF Ml!DeleteCommand
  <2> QED  BY <1>e, <1>f, <2>1 DEF AliasInv
<1>3. CASE Ml!AddCmd
  <2>1. PICK c \in {"p", "q", "empty"} :
          Ml!Commit(Append(entries, c)) /\ entries' = IF c = "empty" THEN entries ELSE Append(entries, c)
    BY <1>0, <1>3 DEF Ml!AddCmd
  <2>2. CASE c = "empty"
    <3> DEFINE e == "empty"
               t == Append(entries, c)
               n == Len(entries)
    <3>1. IsList(entries) /\ \A i \in 1..n : entries[i] # e  BY <1>0 DEF IsList, Texts
    <3>2. IsList(t) /\ Len(t) = n + 1 /\ t[n + 1] = c /\ \A i \in 1..n : t[i] = entries[i]  BY <3>1, ListAppend
    <3>3. c = e  BY <2>2
    <3> HIDE DEF e, t
    <3>4. n + 1 \in 1..Len(t) /\ \A k \in 1..n : (IF k < n + 1 THEN k ELSE k + 1) = k  BY <1>n, <3>2
    <3>5. \A k \in 1..n : entries[k] # e /\ t[IF k < n + 1 THEN k ELSE k + 1] = entries[k]  BY <3>1, <3>2, <3>4
    <3> HIDE DEF n
    <3>6. Ml!Lines(t, e) = entries
      <4>1. t[n + 1] = e /\ Len(t) = Len(entries) + 1  BY <3>2, <3>3 DEF n
      <4>2. \A k \in 1..Len(entries) : entries[k] # e /\ t[IF k < n + 1 THEN k ELSE k + 1] = entries[k]
        BY <3>5 DEF n
      <4> QED  BY <3>1, <3>2, <3>4, <4>1, <4>2, LinesOne
    <3>7. Ml!Commit(t) /\ entries' = entries  BY <2>1, <2>2 DEF t
    <3> QED  BY <1>0, <3>6, <3>7, AliasCommits DEF e
  <2>3. CASE c # "empty"
    <3>1. c \in Texts /\ entries' = Append(entries, c)  BY <2>1, <2>3 DEF Texts
    <3>2. entries' \in Seq(Texts)
      <4> HIDE DEF Texts
      <4> QED  BY <1>0, <3>1
    <3>3. Ml!Lines(entries', "empty") = entries'  BY <3>2, AliasPlain
    <3>4. Ml!Commit(entries')  BY <2>1, <3>1
    <3> QED  BY <3>2, <3>3, <3>4, AliasCommits
  <2> QED  BY <2>2, <2>3
<1>4. CASE Ml!InsertCommand
  <2>1. PICK i \in 0..Len(entries), c \in {"p", "q", "empty"} :
          /\ Ml!Commit(Ml!InsertAt(entries, i + 1, c))
          /\ entries' = IF c = "empty" THEN entries ELSE Ml!InsertAt(entries, i + 1, c)
    BY <1>0, <1>4 DEF Ml!InsertCommand
  <2>2. i + 1 \in 1..Len(entries) + 1  BY <1>n
  <2> DEFINE p == i + 1
             t == Ml!InsertAt(entries, p, c)
  <2>3. p \in 1..Len(entries) + 1 /\ Ml!Commit(t) /\ entries' = IF c = "empty" THEN entries ELSE t  BY <2>1, <2>2
  <2> HIDE DEF p
  <2>4. /\ c = "empty" => Ml!Lines(t, "empty") = entries
        /\ c # "empty" => t \in Seq(Texts) /\ Ml!Lines(t, "empty") = t
    BY <1>0, <2>3, AliasInserted
  <2> HIDE DEF t
  <2>5. entries' \in Seq(Texts) /\ Ml!Lines(t, "empty") = entries'  BY <1>0, <2>3, <2>4
  <2> QED  BY <2>3, <2>5, AliasCommits
<1>5. CASE Ml!RemoveCommand
  <2>1. PICK i \in 0..Len(entries) - 1 :
          Ml!Commit(Ml!RemoveAt(entries, i + 1)) /\ entries' = Ml!RemoveAt(entries, i + 1)
    BY <1>0, <1>5 DEF Ml!RemoveCommand
  <2> DEFINE p == i + 1
  <2>2. p \in 1..Len(entries)  BY <1>n
  <2> HIDE DEF p
  <2>3. Ml!RemoveAt(entries, p) \in Seq(Texts)  BY <1>0, <2>2, RemovedFacts DEF Ml!RemoveAt
  <2>4. entries' \in Seq(Texts) /\ Ml!Commit(entries')  BY <2>1, <2>3 DEF p
  <2> QED  BY <2>4, AliasPlain, AliasCommits
<1> QED  BY <1>1, <1>2, <1>3, <1>4, <1>5

LEMMA AliasLoads == ASSUME AliasInv, list = "alias" PROVE Ml!Loaded = entries /\ Ml!Stored = entriesReg
  BY ListedLoads, ListedStores DEF AliasInv, Ml!AliasGet
-----------------------------------------------------------------------------
(* autocycle *)

AnyChannel == [neg |-> FALSE, chan |-> "*"]

CycleInv == args = <<>> => IsList(entries) /\ Unlike(entries) /\ entriesReg = Ml!ToSet(entries)

LEMMA CycleReads ==
  ASSUME NEW r, IsFiniteSet(r)
  PROVE  LET l == Ml!CycleLoaded(r, <<>>) IN
         /\ IsList(l) /\ Unlike(l) /\ r \subseteq Ml!ToSet(l)
         /\ (\E c \in r : ~c.neg) => Ml!ToSet(l) = r
         /\ \E c \in Ml!ToSet(l) : ~c.neg
<1> DEFINE s == Ml!SetToSeq(r)
           l == Ml!CycleLoaded(r, <<>>)
<1>1. IsList(s) /\ Ml!ToSet(s) = r /\ Unlike(s)  BY SetAsList
<1>2. l = IF \E i \in 1..Len(s) : ~s[i].neg THEN s ELSE Append(s, AnyChannel)
  <2>1. Ml!ToSet(<<>>) = {}  BY ListEmpty
  <2>2. Ml!SetToSeq(r \cup Ml!ToSet(<<>>)) = s
    <3>1. r \cup {} = r  OBVIOUS
    <3> QED  BY <2>1, <3>1, Zenon
  <2>3. <<>> \o s = s
    <3> HIDE DEF s
    <3>1. s \in Seq(Ml!ToSet(s))  BY <1>1, ListOf
    <3> QED  BY <3>1, ConcatEmptySeq
  <2>4. <<>> \o Ml!SetToSeq(r \cup Ml!ToSet(<<>>)) = s  BY <2>2, <2>3, Zenon
  <2> DEFINE k == <<>> \o Ml!SetToSeq(r \cup Ml!ToSet(<<>>))
  <2>5. l = IF \E i \in 1..Len(k) : ~k[i].neg THEN k ELSE Append(k, AnyChannel)
    BY Zenon DEF Ml!CycleLoaded, AnyChannel
  <2>6. k = s  BY <2>4
  <2> HIDE DEF k, s, l
  <2> QED  BY <2>5, <2>6, Zenon
<1> HIDE DEF s, l
<1>3. r = {s[i] : i \in 1..Len(s)}  BY <1>1, ListOf
<1>4. (\E i \in 1..Len(s) : ~s[i].neg) <=> \E c \in r : ~c.neg  BY <1>3
<1>5. CASE \E c \in r : ~c.neg
  <2>1. l = s  BY <1>2, <1>4, <1>5
  <2> QED  BY <1>1, <1>5, <2>1 DEF l
<1>6. CASE ~ \E c \in r : ~c.neg
  <2>1. l = Append(s, AnyChannel)  BY <1>2, <1>4, <1>6
  <2>2. AnyChannel \notin r /\ ~AnyChannel.neg  BY <1>6 DEF AnyChannel
  <2> HIDE DEF AnyChannel
  <2>3. IsList(l) /\ Unlike(l) /\ Ml!ToSet(l) = r \cup {AnyChannel}  BY <1>1, <2>1, <2>2, ListAppend
  <2> QED  BY <1>6, <2>2, <2>3 DEF l
<1> QED  BY <1>5, <1>6

LEMMA CycleInit == ASSUME Ml!Init, list = "autocycle" PROVE CycleInv
<1> SUFFICES ASSUME args = <<>> PROVE IsList(entries) /\ Unlike(entries) /\ entriesReg = Ml!ToSet(entries)
  BY DEF CycleInv
<1>1. entriesReg = Ml!ToSet(Ml!CycleLoaded({}, <<>>)) /\ entries = Ml!CycleLoaded(entriesReg, <<>>)
  BY ListedInit, ListedLoads
<1>2. IsList(Ml!CycleLoaded({}, <<>>)) /\ \E c \in entriesReg : ~c.neg
  <2>1. IsFiniteSet({})  BY FS_EmptySet
  <2> QED  BY <1>1, <2>1, CycleReads
<1>3. IsFiniteSet(entriesReg)
  <2>1. IsFiniteSet(Ml!ToSet(Ml!CycleLoaded({}, <<>>)))  BY <1>2, SetFinite
  <2> QED  BY <1>1, <2>1
<1> QED  BY <1>1, <1>2, <1>3, CycleReads

LEMMA CycleStep == ASSUME CycleInv, args' = args, Ml!CycleAdd \/ Ml!CycleDel PROVE CycleInv'
<1> SUFFICES ASSUME args = <<>> PROVE IsList(entries') /\ Unlike(entries') /\ entriesReg' = Ml!ToSet(entries')
  BY DEF CycleInv
<1>0. IsList(entries) /\ Unlike(entries) /\ entriesReg = Ml!ToSet(entries)  BY DEF CycleInv
<1>1. CASE Ml!CycleAdd
  <2>1. PICK c : /\ ~Ml!AlreadyAdded(entries, c)
                 /\ entries' = Append(entries, c) /\ entriesReg' = entriesReg \cup {c}
    BY <1>1 DEF Ml!CycleAdd
  <2>2. c \notin Ml!ToSet(entries)
    <3> SUFFICES ASSUME c \in Ml!ToSet(entries) PROVE FALSE  OBVIOUS
    <3>1. PICK i \in 1..Len(entries) : entries[i] = c  BY <1>0, ListOf, Zenon
    <3> QED  BY <2>1, <3>1 DEF Ml!AlreadyAdded
  <2> QED  BY <1>0, <2>1, <2>2, ListAppend
<1>2. CASE Ml!CycleDel
  <2>1. PICK i \in 1..Len(entries) : entries' = Ml!RemoveAt(entries, i) /\ entriesReg' = entriesReg \ {entries[i]}
    BY <1>2 DEF Ml!CycleDel
  <2> QED  BY <1>0, <2>1, ListRemove
<1> QED  BY <1>1, <1>2

LEMMA CycleReload ==
  ASSUME CycleInv, list = "autocycle", args' = args, entries' = Ml!Loaded, entriesReg' = Ml!Stored
  PROVE  CycleInv'
<1> SUFFICES ASSUME args = <<>> PROVE IsList(entries') /\ Unlike(entries') /\ entriesReg' = Ml!ToSet(entries')
  BY DEF CycleInv
<1>0. IsFiniteSet(entriesReg)  BY SetFinite DEF CycleInv
<1>1. Ml!Loaded = Ml!CycleLoaded(entriesReg, <<>>) /\ Ml!Stored = entriesReg \cup Ml!ToSet(Ml!Loaded)
  BY ListedLoads, ListedStores
<1>2. IsList(entries') /\ Unlike(entries') /\ entriesReg \subseteq Ml!ToSet(entries')
  BY <1>0, <1>1, CycleReads
<1> QED  BY <1>1, <1>2

LEMMA CycleSame ==
  ASSUME list = "autocycle", NEW l, NEW k, Ml!ToSet(l) = Ml!ToSet(k) PROVE Ml!Does(l) = Ml!Does(k)
<1>1. \A c : Ml!IsAutoCycle(l, c) = Ml!IsAutoCycle(k, c)  BY DEF Ml!IsAutoCycle
<1> QED  BY <1>1 DEF Ml!Does

LEMMA CycleRight ==
  ASSUME CycleInv, list = "autocycle", args = <<>>, \E c \in Ml!ToSet(entries) : ~c.neg
  PROVE  Ml!Does(Ml!Loaded) = Ml!Does(entries)
<1>1. IsFiniteSet(entriesReg) /\ entriesReg = Ml!ToSet(entries)  BY SetFinite DEF CycleInv
<1>2. Ml!Loaded = Ml!CycleLoaded(entriesReg, <<>>)  BY ListedLoads
<1>3. Ml!ToSet(Ml!CycleLoaded(entriesReg, <<>>)) = entriesReg  BY <1>1, CycleReads
<1>4. Ml!ToSet(Ml!Loaded) = Ml!ToSet(entries)  BY <1>1, <1>2, <1>3
<1> QED  BY <1>4, CycleSame

-----------------------------------------------------------------------------
(* autoattach *)

\* No two entries for one text.
OneEach(T) == T \subseteq Ml!Chans /\ \A c, d \in T : c.chan = d.chan => c = d

AttachInv ==
  args = <<>> => IsList(entries) /\ Unlike(entries) /\ OneEach(Ml!ToSet(entries)) /\ entriesReg = Ml!ToSet(entries)

LEMMA AttachReads ==
  ASSUME NEW r, IsFiniteSet(r), OneEach(r)
  PROVE  LET l == Ml!AttachLoaded(r, <<>>) IN IsList(l) /\ Unlike(l) /\ Ml!ToSet(l) = r
<1> DEFINE s == Ml!SetToSeq(r)
<1>1. IsList(s) /\ Unlike(s) /\ Ml!ToSet(s) = r  BY SetAsList
<1>2. {c \in r : \A i \in 1..Len(<<>>) : <<>>[i].chan # c.chan} = r
  <2>1. 1..Len(<<>>) = {}  OBVIOUS
  <2> QED  BY <2>1
<1>3. {c \in r : c.neg \/ [c EXCEPT !.neg = TRUE] \notin r} = r
  <2> SUFFICES ASSUME NEW c \in r, ~c.neg, [c EXCEPT !.neg = TRUE] \in r PROVE FALSE  OBVIOUS
  <2> DEFINE d == [c EXCEPT !.neg = TRUE]
  <2>1. c \in Ml!Chans  BY DEF OneEach
  <2>2. d.chan = c.chan /\ d.neg = TRUE  BY <2>1 DEF Ml!Chans
  <2>3. d \in r  OBVIOUS
  <2> HIDE DEF d
  <2>4. d = c  BY <2>2, <2>3 DEF OneEach
  <2> QED  BY <2>2, <2>4
<1>4. Ml!AttachLoaded(r, <<>>) = <<>> \o s
  <2> DEFINE r1 == {c \in r : \A i \in 1..Len(<<>>) : <<>>[i].chan # c.chan}
  <2>1. Ml!AttachLoaded(r, <<>>) = <<>> \o Ml!SetToSeq({c \in r1 : c.neg \/ [c EXCEPT !.neg = TRUE] \notin r1})
    BY Zenon DEF Ml!AttachLoaded
  <2>2. r1 = r  BY <1>2
  <2> HIDE DEF r1
  <2>3. {c \in r1 : c.neg \/ [c EXCEPT !.neg = TRUE] \notin r1} = r  BY <1>3, <2>2, Zenon
  <2> QED  BY <2>1, <2>3, Zenon
<1>5. <<>> \o s = s
  <2> HIDE DEF s
  <2>1. s \in Seq(Ml!ToSet(s))  BY <1>1, ListOf
  <2> QED  BY <2>1, ConcatEmptySeq
<1> QED  BY <1>1, <1>4, <1>5

LEMMA AttachInit == ASSUME Ml!Init, list = "autoattach" PROVE AttachInv
<1> SUFFICES ASSUME args = <<>>
             PROVE  IsList(entries) /\ Unlike(entries) /\ OneEach(Ml!ToSet(entries)) /\ entriesReg = Ml!ToSet(entries)
  BY DEF AttachInv
<1>1. entriesReg = {} /\ entries = Ml!AttachLoaded(entriesReg, <<>>)  BY ListedInit, ListedLoads, ListEmpty
<1>2. IsFiniteSet({}) /\ OneEach({})  BY FS_EmptySet DEF OneEach
<1> QED  BY <1>1, <1>2, AttachReads

LEMMA AttachStep ==
  ASSUME AttachInv, args' = args, Ml!AttachAdd \/ Ml!AttachDel \/ Ml!AttachSwap PROVE AttachInv'
<1> SUFFICES ASSUME args = <<>>
             PROVE  IsList(entries') /\ Unlike(entries') /\ OneEach(Ml!ToSet(entries')) /\ entriesReg' = Ml!ToSet(entries')
  BY DEF AttachInv
<1> DEFINE n == Len(entries)
<1>0. IsList(entries) /\ Unlike(entries) /\ OneEach(Ml!ToSet(entries)) /\ entriesReg = Ml!ToSet(entries)  BY DEF AttachInv
<1>1. n \in Nat /\ Ml!ToSet(entries) = {entries[i] : i \in 1..n}  BY <1>0, ListOf, Zenon
<1>2. CASE Ml!AttachAdd
  <2>1. PICK c \in Ml!Chans : /\ Ml!Add(entries, c) # entries /\ entries' = Ml!Add(entries, c)
                              /\ entriesReg' = entriesReg \cup {c}
    BY <1>2 DEF Ml!AttachAdd
  <2>2. (\A i \in 1..n : entries[i].chan # c.chan) /\ entries' = Append(entries, c)  BY <2>1 DEF Ml!Add
  <2>3. \A d \in Ml!ToSet(entries) : d.chan # c.chan  BY <1>1, <2>2
  <2>c. c \notin Ml!ToSet(entries)  BY <2>3
  <2>4. IsList(entries') /\ Unlike(entries') /\ Ml!ToSet(entries') = Ml!ToSet(entries) \cup {c}
    BY <1>0, <2>2, <2>c, ListAppend
  <2>5. OneEach(Ml!ToSet(entries) \cup {c})  BY <1>0, <2>3 DEF OneEach
  <2> QED  BY <1>0, <2>1, <2>4, <2>5
<1>3. CASE Ml!AttachDel
  <2>1. PICK i \in 1..n : entries' = Ml!RemoveAt(entries, i) /\ entriesReg' = entriesReg \ {entries[i]}
    BY <1>3 DEF Ml!AttachDel
  <2>2. IsList(entries') /\ Unlike(entries') /\ Ml!ToSet(entries') = Ml!ToSet(entries) \ {entries[i]}
    BY <1>0, <2>1, ListRemove
  <2>3. OneEach(Ml!ToSet(entries) \ {entries[i]})  BY <1>0 DEF OneEach
  <2> QED  BY <1>0, <2>1, <2>2, <2>3
<1>4. CASE Ml!AttachSwap
  <2>1. PICK i \in 1..n, j \in 1..n : /\ i # j /\ entries' = [entries EXCEPT ![i] = entries[j], ![j] = entries[i]]
                                      /\ entriesReg' = Ml!ToSet(entries')
    BY <1>4, Zenon DEF Ml!AttachSwap
  <2> DEFINE f(k) == IF k = j THEN i ELSE IF k = i THEN j ELSE k
  <2>2. IsList(entries') /\ Len(entries') = n
        /\ \A k \in 1..n : entries'[k] = IF k = j THEN entries[i] ELSE IF k = i THEN entries[j] ELSE entries[k]
    <3> DEFINE t == Swapped(entries, i, j)
    <3>1. IsList(t) /\ Len(t) = n
          /\ \A k \in 1..n : t[k] = IF k = j THEN entries[i] ELSE IF k = i THEN entries[j] ELSE entries[k]
      BY <1>0, ListSwap
    <3>2. entries' = t  BY <2>1 DEF Swapped
    <3> HIDE DEF t
    <3> QED  BY <3>1, <3>2
  <2>3. \A k \in 1..n : f(k) \in 1..n /\ entries'[k] = entries[f(k)]  BY <2>2
  <2>4. \A k, m \in 1..n : f(k) = f(m) => k = m  OBVIOUS
  <2> HIDE DEF f
  <2>5. Ml!ToSet(entries') = {entries'[k] : k \in 1..n}  BY <2>2, ListOf, Zenon
  <2>6. Ml!ToSet(entries') \subseteq Ml!ToSet(entries)  BY <1>1, <2>3, <2>5, Zenon
  <2>7. OneEach(Ml!ToSet(entries'))  BY <1>0, <2>6 DEF OneEach
  <2>8. Unlike(entries')
    <3>1. \A k, m \in 1..n : entries[k] = entries[m] => k = m  BY <1>0 DEF Unlike
    <3> SUFFICES ASSUME NEW k \in 1..n, NEW m \in 1..n, entries'[k] = entries'[m] PROVE k = m  BY <2>2 DEF Unlike
    <3>2. f(k) = f(m)  BY <2>3, <3>1, Zenon
    <3> QED  BY <2>4, <3>2
  <2> QED  BY <2>1, <2>2, <2>7, <2>8
<1> QED  BY <1>2, <1>3, <1>4

LEMMA AttachLoads ==
  ASSUME AttachInv, list = "autoattach", args = <<>>
  PROVE  /\ IsList(Ml!Loaded) /\ Unlike(Ml!Loaded) /\ Ml!ToSet(Ml!Loaded) = Ml!ToSet(entries)
         /\ Ml!Stored = entriesReg
<1>1. IsList(entries) /\ OneEach(Ml!ToSet(entries)) /\ entriesReg = Ml!ToSet(entries)  BY DEF AttachInv
<1>2. IsFiniteSet(entriesReg) /\ OneEach(entriesReg)  BY <1>1, SetFinite
<1>3. Ml!Loaded = Ml!AttachLoaded(entriesReg, <<>>) /\ Ml!Stored = entriesReg \cup Ml!ToSet(Ml!Loaded)
  BY ListedLoads, ListedStores
<1>4. IsList(Ml!Loaded) /\ Unlike(Ml!Loaded) /\ Ml!ToSet(Ml!Loaded) = entriesReg  BY <1>2, <1>3, AttachReads
<1> QED  BY <1>1, <1>3, <1>4

LEMMA AttachReload ==
  ASSUME AttachInv, list = "autoattach", args' = args, entries' = Ml!Loaded, entriesReg' = Ml!Stored
  PROVE  AttachInv'
<1> SUFFICES ASSUME args = <<>>
             PROVE  IsList(entries') /\ Unlike(entries') /\ OneEach(Ml!ToSet(entries')) /\ entriesReg' = Ml!ToSet(entries')
  BY DEF AttachInv
<1>1. OneEach(Ml!ToSet(entries)) /\ entriesReg = Ml!ToSet(entries)  BY DEF AttachInv
<1>2. IsList(entries') /\ Unlike(entries') /\ Ml!ToSet(entries') = Ml!ToSet(entries) /\ entriesReg' = entriesReg
  BY AttachLoads
<1> QED  BY <1>1, <1>2

LEMMA AttachRight ==
  ASSUME AttachInv, list = "autoattach", args = <<>> PROVE Ml!Does(Ml!Loaded) = Ml!Does(entries)
<1>1. Ml!ToSet(Ml!Loaded) = Ml!ToSet(entries)  BY AttachLoads
<1> DEFINE l == Ml!Loaded
<1>2. Ml!ToSet(l) = Ml!ToSet(entries)  BY <1>1
<1> HIDE DEF l
<1>3. \A c : Ml!TryAttach(l, c) = Ml!TryAttach(entries, c)  BY <1>2 DEF Ml!TryAttach
<1>4. Ml!Does(l) = Ml!Does(entries)  BY <1>3 DEF Ml!Does
<1> QED  BY <1>4 DEF l

-----------------------------------------------------------------------------
(* autoop and autovoice *)

UserRecords(K) ==
  [name : Ml!Users, masks : SUBSET {"m", "n"}, chans : SUBSET {"c"}, key : K]

\* In memory a user is under his name in lower case, in the registry under his name,
\* and the same in both; only a user without a key can be in the registry alone.
UsersKept(us, r, K) ==
  /\ us \in [DOMAIN us -> UserRecords(K)] /\ r \in [DOMAIN r -> UserRecords(K)]
  /\ \A l \in DOMAIN us : /\ Ml!Lower(us[l].name) = l
                          /\ us[l].name \in DOMAIN r /\ r[us[l].name] = us[l]
  /\ \A n \in DOMAIN r : /\ r[n].name = n
                         /\ \/ Ml!Lower(n) \in DOMAIN us /\ us[Ml!Lower(n)].name = n
                            \/ r[n].key = "empty"

OpKeys == {"empty", "key", "__NOKEY__"}
VoiceKeys == {"voice"}

OpInv == ~skew => UsersKept(entries, entriesReg, OpKeys)
VoiceInv == args = <<>> /\ ~skew => UsersKept(entries, entriesReg, VoiceKeys)

LEMMA WithTyped ==
  ASSUME NEW f, NEW k, NEW S, f \in [DOMAIN f -> S], NEW v \in S
  PROVE  Ml!With(f, k, v) \in [DOMAIN Ml!With(f, k, v) -> S]
  BY DEF Ml!With

LEMMA WithoutIs ==
  ASSUME NEW f, NEW k
  PROVE  LET g == Ml!Without(f, k) IN
         /\ DOMAIN g = DOMAIN f \ {k} /\ \A x \in DOMAIN f : x # k => g[x] = f[x]
         /\ \A S : f \in [DOMAIN f -> S] => g \in [DOMAIN g -> S]
  BY DEF Ml!Without

LEMMA UserStored ==
  ASSUME NEW us, NEW r, NEW K, UsersKept(us, r, K),
         NEW l \in DOMAIN us, NEW u \in UserRecords(K), u.name = us[l].name
  PROVE  UsersKept([us EXCEPT ![l] = u], Ml!With(r, u.name, u), K)
<1> DEFINE v == [us EXCEPT ![l] = u]
           s == Ml!With(r, u.name, u)
           n == u.name
<1>1. DOMAIN v = DOMAIN us /\ v[l] = u /\ (\A x \in DOMAIN us : x # l => v[x] = us[x])
      /\ v \in [DOMAIN v -> UserRecords(K)]
  <2> HIDE DEF UserRecords
  <2> QED  BY DEF UsersKept
<1>2. DOMAIN s = DOMAIN r \cup {n} /\ s[n] = u /\ (\A x \in DOMAIN r : x # n => s[x] = r[x])
      /\ s \in [DOMAIN s -> UserRecords(K)]
  <2> DEFINE S == UserRecords(K)
  <2>1. us \in [DOMAIN us -> S] /\ r \in [DOMAIN r -> S] /\ u \in S  BY DEF UsersKept
  <2> HIDE DEF S
  <2>2. s \in [DOMAIN s -> S]  BY <2>1, WithTyped
  <2>3. DOMAIN s = DOMAIN r \cup {n} /\ s[n] = u /\ (\A x \in DOMAIN r : x # n => s[x] = r[x])
    BY DEF Ml!With
  <2> QED  BY <2>2, <2>3 DEF S
<1>3. /\ \A x \in DOMAIN us : /\ Ml!Lower(us[x].name) = x
                              /\ us[x].name \in DOMAIN r /\ r[us[x].name] = us[x]
      /\ \A x \in DOMAIN r : /\ r[x].name = x
                             /\ \/ Ml!Lower(x) \in DOMAIN us /\ us[Ml!Lower(x)].name = x
                                \/ r[x].key = "empty"
  BY DEF UsersKept
<1>4. u.name = n /\ us[l].name = n /\ Ml!Lower(n) = l /\ n \in DOMAIN r  BY <1>3
<1> HIDE DEF v, s, n
<1>5. ASSUME NEW x \in DOMAIN v
      PROVE  Ml!Lower(v[x].name) = x /\ v[x].name \in DOMAIN s /\ s[v[x].name] = v[x]
  <2>1. CASE x = l  BY <1>1, <1>2, <1>4, <2>1
  <2>2. CASE x # l
    <3>1. v[x] = us[x] /\ x \in DOMAIN us  BY <1>1, <2>2
    <3>2. us[x].name # n  BY <1>3, <1>4, <2>2, <3>1
    <3> QED  BY <1>2, <1>3, <3>1, <3>2
  <2> QED  BY <2>1, <2>2
<1>6. ASSUME NEW x \in DOMAIN s
      PROVE  s[x].name = x /\ ((Ml!Lower(x) \in DOMAIN v /\ v[Ml!Lower(x)].name = x) \/ s[x].key = "empty")
  <2>1. CASE x = n  BY <1>1, <1>2, <1>4, <2>1
  <2>2. CASE x # n
    <3>1. s[x] = r[x] /\ x \in DOMAIN r  BY <1>2, <2>2
    <3>2. CASE r[x].key = "empty"  BY <1>3, <3>1, <3>2
    <3>3. CASE Ml!Lower(x) \in DOMAIN us /\ us[Ml!Lower(x)].name = x
      <4>1. Ml!Lower(x) # l  BY <1>4, <2>2, <3>3
      <4> QED  BY <1>1, <1>3, <3>1, <3>3, <4>1
    <3> QED  BY <1>3, <3>1, <3>2, <3>3
  <2> QED  BY <2>1, <2>2
<1>7. UsersKept(v, s, K)  BY <1>1, <1>2, <1>5, <1>6 DEF UsersKept
<1> QED  BY <1>7 DEF v, s, n

LEMMA UserAdded ==
  ASSUME NEW us, NEW r, NEW K, UsersKept(us, r, K), NEW n \in Ml!Users, NEW u \in UserRecords(K), u.name = n,
         ~(Ml!Lower(n) \in DOMAIN us /\ us[Ml!Lower(n)].name # n)
  PROVE  UsersKept(Ml!With(us, Ml!Lower(n), u), Ml!With(r, n, u), K)
<1> DEFINE l == Ml!Lower(n)
           v == Ml!With(us, l, u)
           s == Ml!With(r, n, u)
<1>0. l \in DOMAIN us => us[l].name = n  OBVIOUS
<1>l. Ml!Lower(n) = l  OBVIOUS
<1>1. DOMAIN v = DOMAIN us \cup {l} /\ v[l] = u /\ (\A x \in DOMAIN us : x # l => v[x] = us[x])
      /\ v \in [DOMAIN v -> UserRecords(K)]
  <2> DEFINE S == UserRecords(K)
  <2>1. us \in [DOMAIN us -> S] /\ r \in [DOMAIN r -> S] /\ u \in S  BY DEF UsersKept
  <2> HIDE DEF S, l
  <2>2. v \in [DOMAIN v -> S]  BY <2>1, WithTyped
  <2>3. DOMAIN v = DOMAIN us \cup {l} /\ v[l] = u /\ (\A x \in DOMAIN us : x # l => v[x] = us[x])
    BY DEF Ml!With
  <2> QED  BY <2>2, <2>3 DEF S
<1>2. DOMAIN s = DOMAIN r \cup {n} /\ s[n] = u /\ (\A x \in DOMAIN r : x # n => s[x] = r[x])
      /\ s \in [DOMAIN s -> UserRecords(K)]
  <2> DEFINE S == UserRecords(K)
  <2>1. us \in [DOMAIN us -> S] /\ r \in [DOMAIN r -> S] /\ u \in S  BY DEF UsersKept
  <2> HIDE DEF S
  <2>2. s \in [DOMAIN s -> S]  BY <2>1, WithTyped
  <2>3. DOMAIN s = DOMAIN r \cup {n} /\ s[n] = u /\ (\A x \in DOMAIN r : x # n => s[x] = r[x])
    BY DEF Ml!With
  <2> QED  BY <2>2, <2>3 DEF S
<1>3. /\ \A x \in DOMAIN us : /\ Ml!Lower(us[x].name) = x
                              /\ us[x].name \in DOMAIN r /\ r[us[x].name] = us[x]
      /\ \A x \in DOMAIN r : /\ r[x].name = x
                             /\ \/ Ml!Lower(x) \in DOMAIN us /\ us[Ml!Lower(x)].name = x
                                \/ r[x].key = "empty"
  BY DEF UsersKept
<1> HIDE DEF v, s, l
<1>5. ASSUME NEW x \in DOMAIN v
      PROVE  Ml!Lower(v[x].name) = x /\ v[x].name \in DOMAIN s /\ s[v[x].name] = v[x]
  <2>1. CASE x = l  BY <1>1, <1>2, <1>l, <2>1
  <2>2. CASE x # l
    <3>1. v[x] = us[x] /\ x \in DOMAIN us  BY <1>1, <2>2
    <3>2. us[x].name # n  BY <1>3, <1>l, <2>2, <3>1
    <3> QED  BY <1>2, <1>3, <3>1, <3>2
  <2> QED  BY <2>1, <2>2
<1>6. ASSUME NEW x \in DOMAIN s
      PROVE  s[x].name = x /\ ((Ml!Lower(x) \in DOMAIN v /\ v[Ml!Lower(x)].name = x) \/ s[x].key = "empty")
  <2>1. CASE x = n  BY <1>1, <1>2, <1>l, <2>1
  <2>2. CASE x # n
    <3>1. s[x] = r[x] /\ x \in DOMAIN r  BY <1>2, <2>2
    <3>2. CASE r[x].key = "empty"  BY <1>3, <3>1, <3>2
    <3>3. CASE Ml!Lower(x) \in DOMAIN us /\ us[Ml!Lower(x)].name = x
      <4>1. Ml!Lower(x) # l  BY <1>0, <2>2, <3>3
      <4> QED  BY <1>1, <1>3, <3>1, <3>3, <4>1
    <3> QED  BY <1>3, <3>1, <3>2, <3>3
  <2> QED  BY <2>1, <2>2
<1>7. UsersKept(v, s, K)  BY <1>1, <1>2, <1>5, <1>6 DEF UsersKept
<1> QED  BY <1>7 DEF v, s, l

LEMMA UserDeleted ==
  ASSUME NEW us, NEW r, NEW K, UsersKept(us, r, K), NEW n,
         ~(Ml!Lower(n) \in DOMAIN us /\ us[Ml!Lower(n)].name # n)
  PROVE  UsersKept(Ml!Without(us, Ml!Lower(n)), Ml!Without(r, n), K)
<1> DEFINE l == Ml!Lower(n)
           v == Ml!Without(us, l)
           s == Ml!Without(r, n)
<1>0. l \in DOMAIN us => us[l].name = n  OBVIOUS
<1>l. Ml!Lower(n) = l  OBVIOUS
<1>1. DOMAIN v = DOMAIN us \ {l} /\ (\A x \in DOMAIN us : x # l => v[x] = us[x])
      /\ v \in [DOMAIN v -> UserRecords(K)]
  <2> HIDE DEF UserRecords, l
  <2> QED  BY WithoutIs, Zenon DEF UsersKept
<1>2. DOMAIN s = DOMAIN r \ {n} /\ (\A x \in DOMAIN r : x # n => s[x] = r[x])
      /\ s \in [DOMAIN s -> UserRecords(K)]
  <2> HIDE DEF UserRecords
  <2> QED  BY WithoutIs, Zenon DEF UsersKept
<1>3. /\ \A x \in DOMAIN us : /\ Ml!Lower(us[x].name) = x
                              /\ us[x].name \in DOMAIN r /\ r[us[x].name] = us[x]
      /\ \A x \in DOMAIN r : /\ r[x].name = x
                             /\ \/ Ml!Lower(x) \in DOMAIN us /\ us[Ml!Lower(x)].name = x
                                \/ r[x].key = "empty"
  BY DEF UsersKept
<1> HIDE DEF v, s, l
<1>5. ASSUME NEW x \in DOMAIN v
      PROVE  Ml!Lower(v[x].name) = x /\ v[x].name \in DOMAIN s /\ s[v[x].name] = v[x]
  <2>1. v[x] = us[x] /\ x \in DOMAIN us /\ x # l  BY <1>1
  <2>2. us[x].name # n  BY <1>3, <1>l, <2>1
  <2> QED  BY <1>2, <1>3, <2>1, <2>2
<1>6. ASSUME NEW x \in DOMAIN s
      PROVE  s[x].name = x /\ ((Ml!Lower(x) \in DOMAIN v /\ v[Ml!Lower(x)].name = x) \/ s[x].key = "empty")
  <2>1. s[x] = r[x] /\ x \in DOMAIN r /\ x # n  BY <1>2
  <2>2. CASE r[x].key = "empty"  BY <1>3, <2>1, <2>2
  <2>3. CASE Ml!Lower(x) \in DOMAIN us /\ us[Ml!Lower(x)].name = x
    <3>1. Ml!Lower(x) # l  BY <1>0, <2>1, <2>3
    <3> QED  BY <1>1, <1>3, <2>1, <2>3, <3>1
  <2> QED  BY <1>3, <2>1, <2>2, <2>3
<1>7. UsersKept(v, s, K)  BY <1>1, <1>2, <1>5, <1>6 DEF UsersKept
<1> QED  BY <1>7 DEF v, s, l

Keyed(r) == {n \in DOMAIN r : r[n].key # "empty"}

LEMMA ByNameIs ==
  ASSUME NEW us, NEW r, NEW K, UsersKept(us, r, K)
  PROVE  LET v == Ml!ByName(r, Keyed(r)) IN
         /\ DOMAIN v = {Ml!Lower(n) : n \in Keyed(r)}
         /\ \A n \in Keyed(r) : Ml!Lower(n) \in DOMAIN us /\ us[Ml!Lower(n)] = r[n] /\ v[Ml!Lower(n)] = r[n]
         /\ v = [l \in DOMAIN v |-> v[l]]
<1> DEFINE G == Keyed(r)
           v == Ml!ByName(r, G)
           at(l) == r[IF l = "a" /\ "A" \in G THEN "A" ELSE l]
<1>1. \A n \in G : n \in DOMAIN r /\ r[n].key # "empty"  BY DEF Keyed
<1>2. \A n \in DOMAIN r : n \in Ml!Users
  <2>1. r \in [DOMAIN r -> UserRecords(K)] /\ \A n \in DOMAIN r : r[n].name = n  BY DEF UsersKept
  <2>2. \A x \in UserRecords(K) : x.name \in Ml!Users  BY DEF UserRecords
  <2> HIDE DEF UserRecords
  <2> QED  BY <2>1, <2>2
<1>3. /\ \A l \in DOMAIN us : us[l].name \in DOMAIN r /\ r[us[l].name] = us[l]
      /\ \A n \in DOMAIN r : \/ Ml!Lower(n) \in DOMAIN us /\ us[Ml!Lower(n)].name = n
                             \/ r[n].key = "empty"
  BY DEF UsersKept
<1> HIDE DEF G
<1>4. \A n \in G : Ml!Lower(n) \in DOMAIN us /\ us[Ml!Lower(n)].name = n /\ us[Ml!Lower(n)] = r[n]  BY <1>1, <1>3
<1>5. v = [l \in {Ml!Lower(n) : n \in G} |-> at(l)]  BY DEF Ml!ByName
<1>6. ~("a" \in G /\ "A" \in G)
  <2>1. Ml!Lower("a") = "a" /\ Ml!Lower("A") = "a" /\ "a" # "A"  BY DEF Ml!Lower
  <2> QED  BY <1>4, <2>1
<1>7. \A n \in G : at(Ml!Lower(n)) = r[n]
  <2> SUFFICES ASSUME NEW n \in G PROVE at(Ml!Lower(n)) = r[n]  OBVIOUS
  <2>1. n \in {"a", "A", "b"}  BY <1>1, <1>2 DEF Ml!Users
  <2>2. CASE n = "a"
    <3>1. Ml!Lower(n) = "a" /\ "A" \notin G  BY <1>6, <2>2 DEF Ml!Lower
    <3> QED  BY <2>2, <3>1
  <2>3. CASE n = "A"
    <3>1. Ml!Lower(n) = "a" /\ "A" \in G  BY <2>3 DEF Ml!Lower
    <3> QED  BY <2>3, <3>1
  <2>4. CASE n = "b"
    <3>1. Ml!Lower(n) = "b" /\ "b" # "a"  BY <2>4 DEF Ml!Lower
    <3> QED  BY <2>4, <3>1
  <2> QED  BY <2>1, <2>2, <2>3, <2>4
<1> HIDE DEF at, v
<1>8. DOMAIN v = {Ml!Lower(n) : n \in G}  BY <1>5
<1>9. \A n \in G : v[Ml!Lower(n)] = r[n]  BY <1>5, <1>7
<1>10. v = [l \in DOMAIN v |-> v[l]]  BY <1>5
<1> QED  BY <1>4, <1>8, <1>9, <1>10 DEF v, G

\* What a load makes is kept, too.
LEMMA UsersRead ==
  ASSUME NEW us, NEW r, NEW K, UsersKept(us, r, K) PROVE UsersKept(Ml!ByName(r, Keyed(r)), r, K)
<1> DEFINE G == Keyed(r)
           v == Ml!ByName(r, G)
<1>1. /\ DOMAIN v = {Ml!Lower(n) : n \in G} /\ \A n \in G : v[Ml!Lower(n)] = r[n]
      /\ v = [l \in DOMAIN v |-> v[l]]
  BY ByNameIs, Zenon
<1>2. r \in [DOMAIN r -> UserRecords(K)] /\ \A n \in DOMAIN r : r[n].name = n  BY DEF UsersKept
<1>3. (\A n \in G : n \in DOMAIN r) /\ \A n \in DOMAIN r : n \notin G => r[n].key = "empty"  BY DEF Keyed
<1> HIDE DEF v, G
<1>4. v \in [DOMAIN v -> UserRecords(K)]
  <2> DEFINE S == UserRecords(K)
  <2>1. \A n \in G : r[n] \in S  BY <1>2, <1>3
  <2> HIDE DEF S
  <2>2. \A l \in DOMAIN v : v[l] \in S  BY <1>1, <2>1
  <2>3. v \in [DOMAIN v -> S]  BY <1>1, <2>2
  <2> QED  BY <2>3 DEF S
<1>5. \A l \in DOMAIN v : Ml!Lower(v[l].name) = l /\ v[l].name \in DOMAIN r /\ r[v[l].name] = v[l]
  <2> SUFFICES ASSUME NEW n \in G, NEW l, l = Ml!Lower(n)
               PROVE  Ml!Lower(v[l].name) = l /\ v[l].name \in DOMAIN r /\ r[v[l].name] = v[l]
    BY <1>1
  <2>1. v[l] = r[n] /\ r[n].name = n /\ n \in DOMAIN r  BY <1>1, <1>2, <1>3
  <2> QED  BY <2>1
<1>6. \A n \in DOMAIN r : /\ r[n].name = n
                          /\ (Ml!Lower(n) \in DOMAIN v /\ v[Ml!Lower(n)].name = n) \/ r[n].key = "empty"
  <2> SUFFICES ASSUME NEW n \in DOMAIN r, n \in G PROVE Ml!Lower(n) \in DOMAIN v /\ v[Ml!Lower(n)].name = n
    BY <1>2, <1>3
  <2> QED  BY <1>1, <1>2
<1>7. UsersKept(v, r, K)  BY <1>2, <1>4, <1>5, <1>6 DEF UsersKept
<1> QED  BY <1>7 DEF v, G

\* Without a user who has no key it is what was there.
LEMMA UsersSame ==
  ASSUME NEW us, NEW r, NEW K, UsersKept(us, r, K), \A l \in DOMAIN us : us[l].key # "empty"
  PROVE  Ml!ByName(r, Keyed(r)) = us
<1> DEFINE G == Keyed(r)
           v == Ml!ByName(r, G)
<1>1. /\ DOMAIN v = {Ml!Lower(n) : n \in G}
      /\ \A n \in G : Ml!Lower(n) \in DOMAIN us /\ us[Ml!Lower(n)] = r[n] /\ v[Ml!Lower(n)] = r[n]
      /\ v = [l \in DOMAIN v |-> v[l]]
  BY ByNameIs, Zenon
<1>2. us = [l \in DOMAIN us |-> us[l]]
  <2> HIDE DEF UserRecords
  <2> QED  BY DEF UsersKept
<1>3. \A l \in DOMAIN us : Ml!Lower(us[l].name) = l /\ us[l].name \in DOMAIN r /\ r[us[l].name] = us[l]
  BY DEF UsersKept
<1>4. \A l \in DOMAIN us : us[l].name \in G  BY <1>3 DEF Keyed
<1> HIDE DEF v, G
<1>5. DOMAIN v = DOMAIN us
  <2>1. \A l \in DOMAIN us : l \in DOMAIN v  BY <1>1, <1>3, <1>4
  <2>2. \A l \in DOMAIN v : l \in DOMAIN us  BY <1>1
  <2> QED  BY <2>1, <2>2
<1>6. \A l \in DOMAIN us : v[l] = us[l]  BY <1>1, <1>3, <1>4
<1>7. v = us  BY <1>1, <1>2, <1>5, <1>6
<1> QED  BY <1>7 DEF v, G

LEMMA NobodyKept == ASSUME NEW K PROVE UsersKept(<<>>, <<>>, K) /\ Keyed(<<>>) = {} /\ Ml!ByName(<<>>, {}) = <<>>
<1>1. DOMAIN <<>> = {}  OBVIOUS
<1>2. <<>> \in [DOMAIN <<>> -> UserRecords(K)]
  <2> HIDE DEF UserRecords
  <2> QED  BY <1>1
<1>3. Keyed(<<>>) = {}  BY <1>1 DEF Keyed
<1>4. Ml!ByName(<<>>, {}) = <<>>  BY DEF Ml!ByName
<1> QED  BY <1>1, <1>2, <1>3, <1>4 DEF UsersKept

LEMMA OpReads == ASSUME NEW r PROVE Ml!OpLoaded(r) = Ml!ByName(r, Keyed(r))  BY DEF Ml!OpLoaded, Keyed

LEMMA OpInit == ASSUME Ml!Init, list = "autoop" PROVE OpInv
<1>1. entriesReg = <<>> /\ entries = Ml!OpLoaded(entriesReg)  BY ListedInit, ListedLoads
<1>2. entries = <<>>  BY <1>1, OpReads, NobodyKept, Zenon
<1> QED  BY <1>1, <1>2, NobodyKept DEF OpInv

LEMMA OpStep ==
  ASSUME OpInv, ~skew,
         Ml!OpAddUser \/ Ml!OpDelUser \/ Ml!OpAddChans \/ Ml!OpDelChans \/ Ml!OpAddMasks \/ Ml!OpDelMasks
  PROVE  OpInv'
<1> SUFFICES ASSUME ~skew' PROVE UsersKept(entries', entriesReg', OpKeys)  BY DEF OpInv
<1> DEFINE R == UserRecords(OpKeys)
<1>0. UsersKept(entries, entriesReg, OpKeys)  BY DEF OpInv
<1>1. \A l \in DOMAIN entries : entries[l] \in R
  <2> HIDE DEF UserRecords
  <2> QED  BY <1>0 DEF UsersKept
<1>2. ASSUME NEW n \in Ml!Users, NEW u \in R, u.name = n, Ml!AddUser(n, u)
      PROVE  UsersKept(entries', entriesReg', OpKeys)
  <2>1. /\ entries' = Ml!With(entries, Ml!Lower(n), u) /\ entriesReg' = Ml!With(entriesReg, n, u)
        /\ ~(Ml!Lower(n) \in DOMAIN entries /\ entries[Ml!Lower(n)].name # n)
    BY <1>2, Zenon DEF Ml!AddUser, Ml!Differs
  <2>2. u \in UserRecords(OpKeys)  OBVIOUS
  <2> HIDE DEF R
  <2>3. UsersKept(Ml!With(entries, Ml!Lower(n), u), Ml!With(entriesReg, n, u), OpKeys)
    BY <1>0, <1>2, <2>1, <2>2, UserAdded
  <2> QED  BY <2>1, <2>3
<1>3. ASSUME NEW n, Ml!DelUser(n) PROVE UsersKept(entries', entriesReg', OpKeys)
  <2>1. /\ entries' = Ml!Without(entries, Ml!Lower(n)) /\ entriesReg' = Ml!Without(entriesReg, n)
        /\ ~(Ml!Lower(n) \in DOMAIN entries /\ entries[Ml!Lower(n)].name # n)
    BY <1>3, Zenon DEF Ml!DelUser, Ml!Differs
  <2>2. UsersKept(Ml!Without(entries, Ml!Lower(n)), Ml!Without(entriesReg, n), OpKeys)  BY <1>0, <2>1, UserDeleted
  <2> QED  BY <2>1, <2>2
<1>4. ASSUME NEW l \in DOMAIN entries, NEW u \in R, u.name = entries[l].name, Ml!Store(l, u)
      PROVE  UsersKept(entries', entriesReg', OpKeys)
  <2>1. entries' = [entries EXCEPT ![l] = u] /\ entriesReg' = Ml!With(entriesReg, u.name, u)
    BY <1>4 DEF Ml!Store
  <2>2. u \in UserRecords(OpKeys)  OBVIOUS
  <2> HIDE DEF R
  <2>3. UsersKept([entries EXCEPT ![l] = u], Ml!With(entriesReg, u.name, u), OpKeys)
    BY <1>0, <1>4, <2>2, UserStored
  <2> QED  BY <2>1, <2>3
<1>5. ASSUME NEW l \in DOMAIN entries, NEW C \in SUBSET {"c"}
      PROVE  LET u == [entries[l] EXCEPT !.chans = C] IN u \in R /\ u.name = entries[l].name
  BY <1>1 DEF UserRecords
<1>6. ASSUME NEW l \in DOMAIN entries, NEW M \in SUBSET {"m", "n"}
      PROVE  LET u == [entries[l] EXCEPT !.masks = M] IN u \in R /\ u.name = entries[l].name
  BY <1>1 DEF UserRecords
<1>7. \A l \in DOMAIN entries : entries[l].masks \in SUBSET {"m", "n"}  BY <1>1 DEF UserRecords
<1>8. CASE Ml!OpAddUser
  <2>1. PICK n \in Ml!Users, M \in Ml!UserMasks, C \in SUBSET {"c"}, k \in {"empty", "key", "__NOKEY__"} :
          Ml!AddUser(n, [name |-> n, masks |-> M, chans |-> C, key |-> k])
    BY <1>8, Zenon DEF Ml!OpAddUser
  <2> DEFINE u == [name |-> n, masks |-> M, chans |-> C, key |-> k]
  <2>2. u \in R /\ u.name = n  BY DEF UserRecords, OpKeys, Ml!UserMasks
  <2> HIDE DEF u, R
  <2> QED  BY <1>2, <2>1, <2>2 DEF u
<1>9. CASE Ml!OpDelUser
  <2>1. PICK n : Ml!DelUser(n)  BY <1>9 DEF Ml!OpDelUser
  <2> QED  BY <1>3, <2>1
<1>10. CASE Ml!OpAddChans
  <2>1. PICK l \in DOMAIN entries : Ml!Store(l, [entries[l] EXCEPT !.chans = {"c"}])  BY <1>10, Zenon DEF Ml!OpAddChans
  <2> DEFINE u == [entries[l] EXCEPT !.chans = {"c"}]
  <2>2. u \in R /\ u.name = entries[l].name  BY <1>5, Zenon
  <2> HIDE DEF u, R
  <2> QED  BY <1>4, <2>1, <2>2, Zenon DEF u
<1>11. CASE Ml!OpDelChans
  <2>1. PICK l \in DOMAIN entries : Ml!Store(l, [entries[l] EXCEPT !.chans = {}])  BY <1>11, Zenon DEF Ml!OpDelChans
  <2> DEFINE u == [entries[l] EXCEPT !.chans = {}]
  <2>2. u \in R /\ u.name = entries[l].name  BY <1>5, Zenon
  <2> HIDE DEF u, R
  <2> QED  BY <1>4, <2>1, <2>2, Zenon DEF u
<1>12. CASE Ml!OpAddMasks
  <2>1. PICK l \in DOMAIN entries, M \in Ml!UserMasks : Ml!Store(l, [entries[l] EXCEPT !.masks = @ \union M])
    BY <1>12, Zenon DEF Ml!OpAddMasks
  <2> DEFINE N == entries[l].masks \union M
             u == [entries[l] EXCEPT !.masks = N]
  <2>2. N \in SUBSET {"m", "n"}  BY <1>7, Zenon DEF Ml!UserMasks
  <2>3. Ml!Store(l, u)  BY <2>1
  <2> HIDE DEF N
  <2>4. u \in R /\ u.name = entries[l].name  BY <1>6, <2>2
  <2> HIDE DEF u, R
  <2> QED  BY <1>4, <2>3, <2>4
<1>13. CASE Ml!OpDelMasks
  <2>1. PICK n, M : /\ Ml!Lower(n) \in DOMAIN entries
                    /\ LET left == entries[Ml!Lower(n)].masks \ M
                       IN  IF left = {} THEN Ml!DelUser(n)
                           ELSE Ml!Store(Ml!Lower(n), [entries[Ml!Lower(n)] EXCEPT !.masks = left])
    BY <1>13, Zenon DEF Ml!OpDelMasks
  <2> DEFINE l == Ml!Lower(n)
             N == entries[l].masks \ M
             u == [entries[l] EXCEPT !.masks = N]
  <2>2. l \in DOMAIN entries /\ N \in SUBSET {"m", "n"}
    <3>1. l \in DOMAIN entries  BY <2>1
    <3> HIDE DEF l
    <3> QED  BY <1>7, <3>1
  <2>3. Ml!DelUser(n) \/ Ml!Store(l, u)  BY <2>1
  <2> HIDE DEF N, l
  <2>4. u \in R /\ u.name = entries[l].name  BY <1>6, <2>2
  <2> HIDE DEF u, R
  <2> QED  BY <1>3, <1>4, <2>2, <2>3, <2>4
<1> QED  BY <1>8, <1>9, <1>10, <1>11, <1>12, <1>13

LEMMA OpReload ==
  ASSUME OpInv, list = "autoop", skew' = skew, entries' = Ml!Loaded, entriesReg' = Ml!Stored PROVE OpInv'
<1> SUFFICES ASSUME ~skew PROVE UsersKept(entries', entriesReg', OpKeys)  BY DEF OpInv
<1>1. UsersKept(entries, entriesReg, OpKeys)  BY DEF OpInv
<1>2. UsersKept(Ml!ByName(entriesReg, Keyed(entriesReg)), entriesReg, OpKeys)  BY <1>1, UsersRead
<1>3. entries' = Ml!ByName(entriesReg, Keyed(entriesReg)) /\ entriesReg' = entriesReg
  BY ListedLoads, ListedStores, OpReads
<1> QED  BY <1>2, <1>3

LEMMA OpRight ==
  ASSUME OpInv, list = "autoop", ~skew, \A u \in DOMAIN entries : entries[u].key # "empty"
  PROVE  Ml!Loaded = entries
<1>1. UsersKept(entries, entriesReg, OpKeys)  BY DEF OpInv
<1>2. Ml!Loaded = Ml!ByName(entriesReg, Keyed(entriesReg))  BY ListedLoads, OpReads
<1> QED  BY <1>1, <1>2, UsersSame

LEMMA VoiceReads ==
  ASSUME list = "autovoice", args = <<>> PROVE Ml!Loaded = Ml!ByName(entriesReg, DOMAIN entriesReg)
  BY ListedLoads DEF Ml!VoiceLoaded

LEMMA VoiceKeyed ==
  ASSUME NEW us, NEW r, UsersKept(us, r, VoiceKeys)
  PROVE  Keyed(r) = DOMAIN r /\ \A l \in DOMAIN us : us[l].key # "empty"
<1>1. \A x \in UserRecords(VoiceKeys) : x.key # "empty"  BY DEF UserRecords, VoiceKeys
<1>2. us \in [DOMAIN us -> UserRecords(VoiceKeys)] /\ r \in [DOMAIN r -> UserRecords(VoiceKeys)]  BY DEF UsersKept
<1> HIDE DEF UserRecords
<1>3. (\A l \in DOMAIN us : us[l].key # "empty") /\ \A n \in DOMAIN r : r[n].key # "empty"  BY <1>1, <1>2
<1> QED  BY <1>3 DEF Keyed

LEMMA VoiceInit == ASSUME Ml!Init, list = "autovoice" PROVE VoiceInv
<1> SUFFICES ASSUME args = <<>> PROVE UsersKept(entries, entriesReg, VoiceKeys)  BY DEF VoiceInv
<1>1. entriesReg = <<>> /\ entries = Ml!ByName(entriesReg, DOMAIN entriesReg)  BY ListedInit, VoiceReads
<1>2. DOMAIN <<>> = {}  OBVIOUS
<1>3. Ml!ByName(entriesReg, DOMAIN entriesReg) = <<>>  BY <1>1, <1>2, NobodyKept
<1> QED  BY <1>1, <1>3, NobodyKept

LEMMA VoiceStep ==
  ASSUME VoiceInv, args' = args, ~skew,
         Ml!VoiceAddUser \/ Ml!VoiceDelUser \/ Ml!VoiceAddChans \/ Ml!VoiceDelChans
  PROVE  VoiceInv'
<1> SUFFICES ASSUME args = <<>>, ~skew' PROVE UsersKept(entries', entriesReg', VoiceKeys)  BY DEF VoiceInv
<1> DEFINE R == UserRecords(VoiceKeys)
<1>0. UsersKept(entries, entriesReg, VoiceKeys)  BY DEF VoiceInv
<1>1. \A l \in DOMAIN entries : entries[l] \in R
  <2> HIDE DEF UserRecords
  <2> QED  BY <1>0 DEF UsersKept
<1>4. ASSUME NEW l \in DOMAIN entries, NEW C \in SUBSET {"c"}, Ml!Store(l, [entries[l] EXCEPT !.chans = C])
      PROVE  UsersKept(entries', entriesReg', VoiceKeys)
  <2> DEFINE u == [entries[l] EXCEPT !.chans = C]
  <2>1. entries' = [entries EXCEPT ![l] = u] /\ entriesReg' = Ml!With(entriesReg, u.name, u)
    BY <1>4 DEF Ml!Store
  <2>2. u \in UserRecords(VoiceKeys) /\ u.name = entries[l].name  BY <1>1 DEF UserRecords
  <2> HIDE DEF R, u
  <2>3. UsersKept([entries EXCEPT ![l] = u], Ml!With(entriesReg, u.name, u), VoiceKeys)
    BY <1>0, <2>2, UserStored
  <2> QED  BY <2>1, <2>3
<1>5. CASE Ml!VoiceAddUser
  <2>1. PICK n \in Ml!Users, h \in {"m", "n"}, C \in SUBSET {"c"} :
          Ml!AddUser(n, [name |-> n, masks |-> {h}, chans |-> C, key |-> "voice"])
    BY <1>5, Zenon DEF Ml!VoiceAddUser
  <2> DEFINE u == [name |-> n, masks |-> {h}, chans |-> C, key |-> "voice"]
  <2>2. u \in UserRecords(VoiceKeys) /\ u.name = n  BY DEF UserRecords, VoiceKeys
  <2>3. Ml!AddUser(n, u)  BY <2>1
  <2> HIDE DEF u
  <2>4. /\ entries' = Ml!With(entries, Ml!Lower(n), u) /\ entriesReg' = Ml!With(entriesReg, n, u)
        /\ ~(Ml!Lower(n) \in DOMAIN entries /\ entries[Ml!Lower(n)].name # n)
    BY <2>3, Zenon DEF Ml!AddUser, Ml!Differs
  <2>5. UsersKept(Ml!With(entries, Ml!Lower(n), u), Ml!With(entriesReg, n, u), VoiceKeys)
    BY <1>0, <2>2, <2>4, UserAdded
  <2> QED  BY <2>4, <2>5
<1>6. CASE Ml!VoiceDelUser
  <2>1. PICK n : Ml!DelUser(n)  BY <1>6 DEF Ml!VoiceDelUser
  <2>2. /\ entries' = Ml!Without(entries, Ml!Lower(n)) /\ entriesReg' = Ml!Without(entriesReg, n)
        /\ ~(Ml!Lower(n) \in DOMAIN entries /\ entries[Ml!Lower(n)].name # n)
    BY <2>1, Zenon DEF Ml!DelUser, Ml!Differs
  <2>3. UsersKept(Ml!Without(entries, Ml!Lower(n)), Ml!Without(entriesReg, n), VoiceKeys)  BY <1>0, <2>2, UserDeleted
  <2> QED  BY <2>2, <2>3
<1>7. CASE Ml!VoiceAddChans
  <2>1. PICK l \in DOMAIN entries : Ml!Store(l, [entries[l] EXCEPT !.chans = {"c"}])  BY <1>7, Zenon DEF Ml!VoiceAddChans
  <2> QED  BY <1>4, <2>1, Zenon
<1>8. CASE Ml!VoiceDelChans
  <2>1. PICK l \in DOMAIN entries : Ml!Store(l, [entries[l] EXCEPT !.chans = {}])  BY <1>8, Zenon DEF Ml!VoiceDelChans
  <2> QED  BY <1>4, <2>1, Zenon
<1> QED  BY <1>5, <1>6, <1>7, <1>8

LEMMA VoiceReload ==
  ASSUME VoiceInv, list = "autovoice", args' = args, skew' = skew, entries' = Ml!Loaded, entriesReg' = Ml!Stored
  PROVE  VoiceInv'
<1> SUFFICES ASSUME args = <<>>, ~skew PROVE UsersKept(entries', entriesReg', VoiceKeys)  BY DEF VoiceInv
<1>1. UsersKept(entries, entriesReg, VoiceKeys)  BY DEF VoiceInv
<1>2. UsersKept(Ml!ByName(entriesReg, Keyed(entriesReg)), entriesReg, VoiceKeys)  BY <1>1, UsersRead
<1>3. Keyed(entriesReg) = DOMAIN entriesReg  BY <1>1, VoiceKeyed
<1>4. entries' = Ml!ByName(entriesReg, DOMAIN entriesReg) /\ entriesReg' = entriesReg  BY VoiceReads, ListedStores
<1> QED  BY <1>2, <1>3, <1>4

LEMMA VoiceRight == ASSUME VoiceInv, list = "autovoice", args = <<>>, ~skew PROVE Ml!Loaded = entries
<1>1. UsersKept(entries, entriesReg, VoiceKeys)  BY DEF VoiceInv
<1>2. Keyed(entriesReg) = DOMAIN entriesReg /\ \A l \in DOMAIN entries : entries[l].key # "empty"
  BY <1>1, VoiceKeyed
<1>3. Ml!ByName(entriesReg, Keyed(entriesReg)) = entries  BY <1>1, <1>2, UsersSame
<1> QED  BY <1>2, <1>3, VoiceReads
-----------------------------------------------------------------------------
(* certauth *)

\* Keys of users and users of keys are each other's inverse, the registry has the
\* first without the users that have no key, and ZNC knows those it has.
KeysKept(us, r, m) ==
  /\ m = [pub |-> m.pub, users |-> m.users]
  /\ m.pub \in [Ml!Owners -> SUBSET Ml!PubKeys]
  /\ m.users \in [Ml!PubKeys -> SUBSET Ml!Owners]
  /\ \A k \in Ml!PubKeys : m.users[k] = {u \in Ml!Owners : k \in m.pub[u]}
  /\ DOMAIN r = {u \in Ml!Owners : m.pub[u] # {}}
  /\ \A u \in DOMAIN r : u \in us /\ r[u] = m.pub[u]

CertInv == ~skew => KeysKept(known, entriesReg, entries)

LEMMA CertReads ==
  ASSUME NEW us, NEW r, NEW m, KeysKept(us, r, m)
  PROVE  Ml!OnBoot(Ml!NoKeys, r, us) = m /\ Ml!OnBoot(m, r, us) = m
<1> DEFINE in(u) == IF u \in us \intersect DOMAIN r THEN r[u] ELSE {}
           of(k) == {u \in us \intersect DOMAIN r : k \in r[u]}
<1>1. m.pub = [u \in Ml!Owners |-> m.pub[u]] /\ m.users = [k \in Ml!PubKeys |-> m.users[k]]  BY DEF KeysKept
<1>2. \A u \in Ml!Owners : in(u) = m.pub[u]
  <2> SUFFICES ASSUME NEW u \in Ml!Owners PROVE in(u) = m.pub[u]  OBVIOUS
  <2>1. CASE u \in DOMAIN r  BY <2>1 DEF KeysKept
  <2>2. CASE u \notin DOMAIN r  BY <2>2, Zenon DEF KeysKept
  <2> QED  BY <2>1, <2>2
<1>3. \A k \in Ml!PubKeys : of(k) = m.users[k]
  <2> SUFFICES ASSUME NEW k \in Ml!PubKeys PROVE of(k) = m.users[k]  OBVIOUS
  <2>0. m.users[k] = {u \in Ml!Owners : k \in m.pub[u]}  BY DEF KeysKept
  <2>1. \A u \in of(k) : u \in Ml!Owners /\ k \in m.pub[u]  BY DEF KeysKept
  <2>2. \A u \in Ml!Owners : k \in m.pub[u] => u \in of(k)  BY DEF KeysKept
  <2> HIDE DEF of
  <2> QED  BY <2>0, <2>1, <2>2
<1>4. ASSUME NEW b PROVE Ml!OnBoot(b, r, us) = [pub |-> [u \in Ml!Owners |-> b.pub[u] \union in(u)],
                                               users |-> [k \in Ml!PubKeys |-> b.users[k] \union of(k)]]
  BY DEF Ml!OnBoot
<1> HIDE DEF in, of
<1>5. m = [pub |-> m.pub, users |-> m.users]  BY DEF KeysKept
<1>6. Ml!OnBoot(m, r, us) = m
  <2>1. [u \in Ml!Owners |-> m.pub[u] \union in(u)] = m.pub  BY <1>1, <1>2
  <2>2. [k \in Ml!PubKeys |-> m.users[k] \union of(k)] = m.users  BY <1>1, <1>3
  <2>3. Ml!OnBoot(m, r, us) = [pub |-> [u \in Ml!Owners |-> m.pub[u] \union in(u)],
                               users |-> [k \in Ml!PubKeys |-> m.users[k] \union of(k)]]  BY <1>4, Zenon
  <2> QED  BY <1>5, <2>1, <2>2, <2>3
<1>7. Ml!OnBoot(Ml!NoKeys, r, us) = m
  <2> DEFINE b == Ml!NoKeys
  <2>0. (\A u \in Ml!Owners : b.pub[u] = {}) /\ \A k \in Ml!PubKeys : b.users[k] = {}  BY DEF Ml!NoKeys
  <2>1. [u \in Ml!Owners |-> b.pub[u] \union in(u)] = m.pub  BY <1>1, <1>2, <2>0
  <2>2. [k \in Ml!PubKeys |-> b.users[k] \union of(k)] = m.users  BY <1>1, <1>3, <2>0
  <2>3. Ml!OnBoot(b, r, us) = [pub |-> [u \in Ml!Owners |-> b.pub[u] \union in(u)],
                               users |-> [k \in Ml!PubKeys |-> b.users[k] \union of(k)]]  BY <1>4, Zenon
  <2> QED  BY <1>5, <2>1, <2>2, <2>3
<1> QED  BY <1>6, <1>7

LEMMA CertInit == ASSUME Ml!Init, list = "certauth" PROVE CertInv
<1>1. entriesReg = <<>> /\ entries = Ml!OnBoot(Ml!NoKeys, entriesReg, known)  BY ListedInit, ListedLoads
<1>2. DOMAIN entriesReg = {}  BY <1>1
<1>3. KeysKept(known, entriesReg, Ml!NoKeys)  BY <1>2 DEF KeysKept, Ml!NoKeys
<1>4. entries = Ml!NoKeys  BY <1>1, <1>3, CertReads
<1> QED  BY <1>3, <1>4 DEF CertInv

\* A command changes the keys of one user.
LEMMA KeysChanged ==
  ASSUME KeysKept(known, entriesReg, entries), NEW u \in known, u \in Ml!Owners, NEW P \in SUBSET Ml!PubKeys,
         entries' = [pub |-> [entries.pub EXCEPT ![u] = P], users |-> entries'.users],
         entries'.users \in [Ml!PubKeys -> SUBSET Ml!Owners],
         \A k \in Ml!PubKeys : entries'.users[k] = IF k \in P THEN entries.users[k] \union {u}
                                                   ELSE entries.users[k] \ {u},
         Ml!Save(entries'.pub)
  PROVE  KeysKept(known, entriesReg', entries')
<1> DEFINE q == [entries.pub EXCEPT ![u] = P]
<1>0. /\ entries.pub \in [Ml!Owners -> SUBSET Ml!PubKeys]
      /\ \A k \in Ml!PubKeys : entries.users[k] = {w \in Ml!Owners : k \in entries.pub[w]}
      /\ DOMAIN entriesReg = {w \in Ml!Owners : entries.pub[w] # {}}
      /\ \A w \in DOMAIN entriesReg : w \in known
  BY DEF KeysKept
<1>1. /\ q \in [Ml!Owners -> SUBSET Ml!PubKeys] /\ q[u] = P
      /\ \A w \in Ml!Owners : w # u => q[w] = entries.pub[w]
  BY <1>0
<1>2. entries'.pub = q  OBVIOUS
<1> HIDE DEF q
<1>3. entries' = [pub |-> entries'.pub, users |-> entries'.users]  BY <1>2 DEF q
<1>4. \A k \in Ml!PubKeys : entries'.users[k] = {w \in Ml!Owners : k \in q[w]}
  <2> SUFFICES ASSUME NEW k \in Ml!PubKeys PROVE entries'.users[k] = {w \in Ml!Owners : k \in q[w]}  OBVIOUS
  <2>1. CASE k \in P
    <3>1. entries'.users[k] = {w \in Ml!Owners : k \in entries.pub[w]} \union {u}  BY <1>0, <2>1, Zenon
    <3>2. {w \in Ml!Owners : k \in entries.pub[w]} \union {u} = {w \in Ml!Owners : k \in q[w]}  BY <1>1, <2>1
    <3> QED  BY <3>1, <3>2
  <2>2. CASE k \notin P
    <3>1. entries'.users[k] = {w \in Ml!Owners : k \in entries.pub[w]} \ {u}  BY <1>0, <2>2, Zenon
    <3>2. {w \in Ml!Owners : k \in entries.pub[w]} \ {u} = {w \in Ml!Owners : k \in q[w]}  BY <1>1, <2>2
    <3> QED  BY <3>1, <3>2
  <2> QED  BY <2>1, <2>2
<1>5. entriesReg' = [w \in {x \in Ml!Owners : q[x] # {}} |-> q[w]]  BY <1>2 DEF Ml!Save
<1>6. DOMAIN entriesReg' = {w \in Ml!Owners : q[w] # {}}  BY <1>5
<1>7. \A w \in DOMAIN entriesReg' : w \in known /\ entriesReg'[w] = q[w]
  <2> SUFFICES ASSUME NEW w \in Ml!Owners, q[w] # {} PROVE w \in known /\ entriesReg'[w] = q[w]  BY <1>6
  <2>1. w \in known
    <3>1. CASE w = u  BY <3>1
    <3>2. CASE w # u  BY <1>0, <1>1, <3>2
    <3> QED  BY <3>1, <3>2
  <2> QED  BY <1>5, <2>1
<1>8. entries'.users \in [Ml!PubKeys -> SUBSET Ml!Owners]  OBVIOUS
<1>9. /\ entries'.pub \in [Ml!Owners -> SUBSET Ml!PubKeys]
      /\ \A k \in Ml!PubKeys : entries'.users[k] = {w \in Ml!Owners : k \in entries'.pub[w]}
      /\ DOMAIN entriesReg' = {w \in Ml!Owners : entries'.pub[w] # {}}
      /\ \A w \in DOMAIN entriesReg' : w \in known /\ entriesReg'[w] = entries'.pub[w]
  BY <1>1, <1>2, <1>4, <1>6, <1>7
<1> QED  BY <1>3, <1>8, <1>9 DEF KeysKept

LEMMA CertStep ==
  ASSUME CertInv, skew \in BOOLEAN, ~skew, known \subseteq Ml!Owners,
         Ml!AddKey \/ Ml!DelKey \/ Ml!OnPostRehash \/ Ml!AddOwner \/ Ml!DelOwner
  PROVE  CertInv' /\ known' \subseteq Ml!Owners /\ skew' \in BOOLEAN
<1>0. KeysKept(known, entriesReg, entries)  BY DEF CertInv
<1>1. /\ entries = [pub |-> entries.pub, users |-> entries.users]
      /\ entries.pub \in [Ml!Owners -> SUBSET Ml!PubKeys] /\ entries.users \in [Ml!PubKeys -> SUBSET Ml!Owners]
      /\ \A k \in Ml!PubKeys : entries.users[k] = {u \in Ml!Owners : k \in entries.pub[u]}
  BY <1>0 DEF KeysKept
<1>s. skew \in BOOLEAN  OBVIOUS
<1>2. CASE Ml!AddKey
  <2>1. PICK u \in known, k \in Ml!PubKeys :
          /\ entries' = [pub |-> [entries.pub EXCEPT ![u] = @ \union {k}],
                         users |-> [entries.users EXCEPT ![k] = @ \union {u}]]
          /\ Ml!Save(entries'.pub) /\ known' = known /\ skew' = skew
    BY <1>2, Zenon DEF Ml!AddKey
  <2> DEFINE P == entries.pub[u] \union {k}
             w == [entries.users EXCEPT ![k] = @ \union {u}]
  <2>2. u \in Ml!Owners /\ P \in SUBSET Ml!PubKeys  BY <1>1
  <2>3. entries' = [pub |-> [entries.pub EXCEPT ![u] = P], users |-> w]  BY <2>1
  <2>4. /\ w \in [Ml!PubKeys -> SUBSET Ml!Owners]
        /\ \A l \in Ml!PubKeys : w[l] = IF l = k THEN entries.users[l] \union {u} ELSE entries.users[l]
    BY <1>1, <2>2, Zenon
  <2>5. \A l \in Ml!PubKeys : w[l] = IF l \in P THEN entries.users[l] \union {u} ELSE entries.users[l] \ {u}
    <3> SUFFICES ASSUME NEW l \in Ml!PubKeys
                 PROVE  w[l] = IF l \in P THEN entries.users[l] \union {u} ELSE entries.users[l] \ {u}
      OBVIOUS
    <3>1. l \in entries.pub[u] <=> u \in entries.users[l]  BY <1>1, <2>2
    <3> HIDE DEF w
    <3>2. CASE l = k  BY <2>4, <3>2
    <3>3. CASE l # k /\ l \in entries.pub[u]
      <4>1. w[l] = entries.users[l] /\ entries.users[l] = entries.users[l] \union {u}  BY <2>4, <3>1, <3>3
      <4>2. l \in P  BY <3>3
      <4> QED  BY <4>1, <4>2
    <3>4. CASE l # k /\ l \notin entries.pub[u]
      <4>1. w[l] = entries.users[l] /\ entries.users[l] = entries.users[l] \ {u}  BY <2>4, <3>1, <3>4
      <4>2. l \notin P  BY <3>4
      <4> QED  BY <4>1, <4>2
    <3> QED  BY <3>2, <3>3, <3>4
  <2> HIDE DEF P, w
  <2>6. entries'.users = w /\ entries' = [pub |-> [entries.pub EXCEPT ![u] = P], users |-> entries'.users]
    BY <2>3
  <2>7. KeysKept(known, entriesReg', entries')  BY <1>0, <2>1, <2>2, <2>4, <2>5, <2>6, KeysChanged, Zenon
  <2> QED  BY <1>s, <2>1, <2>7 DEF CertInv
<1>3. CASE Ml!DelKey
  <2>0. PICK u \in known : \E k \in entries.pub[u] :
          /\ entries' = [pub |-> [entries.pub EXCEPT ![u] = @ \ {k}],
                         users |-> [entries.users EXCEPT ![k] = @ \ {u}]]
          /\ Ml!Save(entries'.pub) /\ known' = known /\ skew' = skew
    BY <1>3, Zenon DEF Ml!DelKey
  <2>1. PICK k \in entries.pub[u] :
          /\ entries' = [pub |-> [entries.pub EXCEPT ![u] = @ \ {k}],
                         users |-> [entries.users EXCEPT ![k] = @ \ {u}]]
          /\ Ml!Save(entries'.pub) /\ known' = known /\ skew' = skew
    BY <2>0, Zenon
  <2> DEFINE P == entries.pub[u] \ {k}
             w == [entries.users EXCEPT ![k] = @ \ {u}]
  <2>2. u \in Ml!Owners /\ P \in SUBSET Ml!PubKeys /\ k \in Ml!PubKeys  BY <1>1
  <2>3. entries' = [pub |-> [entries.pub EXCEPT ![u] = P], users |-> w]  BY <2>1
  <2>4. /\ w \in [Ml!PubKeys -> SUBSET Ml!Owners]
        /\ \A l \in Ml!PubKeys : w[l] = IF l = k THEN entries.users[l] \ {u} ELSE entries.users[l]
    BY <1>1, <2>2, Zenon
  <2>5. \A l \in Ml!PubKeys : w[l] = IF l \in P THEN entries.users[l] \union {u} ELSE entries.users[l] \ {u}
    <3> SUFFICES ASSUME NEW l \in Ml!PubKeys
                 PROVE  w[l] = IF l \in P THEN entries.users[l] \union {u} ELSE entries.users[l] \ {u}
      OBVIOUS
    <3>1. l \in entries.pub[u] <=> u \in entries.users[l]  BY <1>1, <2>2
    <3> HIDE DEF w
    <3>2. CASE l = k  BY <2>4, <3>2
    <3>3. CASE l # k /\ l \in entries.pub[u]
      <4>1. w[l] = entries.users[l] /\ entries.users[l] = entries.users[l] \union {u}  BY <2>4, <3>1, <3>3
      <4>2. l \in P  BY <3>3
      <4> QED  BY <4>1, <4>2
    <3>4. CASE l # k /\ l \notin entries.pub[u]
      <4>1. w[l] = entries.users[l] /\ entries.users[l] = entries.users[l] \ {u}  BY <2>4, <3>1, <3>4
      <4>2. l \notin P  BY <3>4
      <4> QED  BY <4>1, <4>2, Zenon
    <3> QED  BY <3>2, <3>3, <3>4
  <2> HIDE DEF P, w
  <2>6. entries'.users = w /\ entries' = [pub |-> [entries.pub EXCEPT ![u] = P], users |-> entries'.users]
    BY <2>3
  <2>7. KeysKept(known, entriesReg', entries')  BY <1>0, <2>1, <2>2, <2>4, <2>5, <2>6, KeysChanged, Zenon
  <2> QED  BY <1>s, <2>1, <2>7 DEF CertInv
<1>4. CASE Ml!OnPostRehash
  <2>1. entries' = Ml!OnBoot(entries, entriesReg, known) /\ entriesReg' = entriesReg /\ known' = known /\ skew' = skew
    BY <1>4 DEF Ml!OnPostRehash
  <2>2. entries' = entries  BY <1>0, <2>1, CertReads
  <2> QED  BY <1>0, <1>s, <2>1, <2>2 DEF CertInv
<1>5. CASE Ml!AddOwner
  <2>1. PICK u \in Ml!Owners \ known : /\ known' = known \union {u} /\ entries' = entries
                                       /\ entriesReg' = entriesReg /\ skew' = skew
    BY <1>5 DEF Ml!AddOwner
  <2>2. KeysKept(known', entriesReg, entries)  BY <1>0, <2>1 DEF KeysKept
  <2> QED  BY <1>s, <2>1, <2>2 DEF CertInv
<1>6. CASE Ml!DelOwner
  <2>1. PICK u \in known : /\ known' = known \ {u} /\ skew' = (u \in DOMAIN entriesReg)
                           /\ entries' = entries /\ entriesReg' = entriesReg
    BY <1>6 DEF Ml!DelOwner
  <2>2. ~skew' => KeysKept(known', entriesReg, entries)
    <3> SUFFICES ASSUME u \notin DOMAIN entriesReg PROVE KeysKept(known', entriesReg, entries)  BY <2>1, Zenon
    <3> QED  BY <1>0, <2>1 DEF KeysKept
  <2> QED  BY <2>1, <2>2 DEF CertInv
<1> QED  BY <1>2, <1>3, <1>4, <1>5, <1>6

LEMMA CertLoads == ASSUME CertInv, list = "certauth", ~skew PROVE Ml!Loaded = entries /\ Ml!Stored = entriesReg
<1>1. KeysKept(known, entriesReg, entries)  BY DEF CertInv
<1>2. Ml!OnBoot(Ml!NoKeys, entriesReg, known) = entries  BY <1>1, CertReads
<1> QED  BY <1>2, ListedLoads, ListedStores
-----------------------------------------------------------------------------
(* All of them *)

ListsInv ==
  /\ list \in Ml!ListModules /\ skew \in BOOLEAN /\ known \subseteq Ml!Owners
  /\ list = "watch" => WatchInv
  /\ list = "perform" => PerformInv
  /\ list = "alias" => AliasInv
  /\ list = "autocycle" => CycleInv
  /\ list = "autoattach" => AttachInv
  /\ list = "autoop" => OpInv
  /\ list = "autovoice" => VoiceInv
  /\ list = "certauth" => CertInv

LEMMA ListsInit == Ml!Init => ListsInv
<1> SUFFICES ASSUME Ml!Init PROVE ListsInv  OBVIOUS
<1>1. list \in Ml!ListModules /\ skew \in BOOLEAN /\ known \subseteq Ml!Owners  BY ListedInit
<1>2. /\ list = "watch" => WatchInv
      /\ list = "perform" => PerformInv
      /\ list = "alias" => AliasInv
      /\ list = "autocycle" => CycleInv
  BY WatchInit, PerformInit, AliasInit, CycleInit
<1>3. /\ list = "autoattach" => AttachInv
      /\ list = "autoop" => OpInv
      /\ list = "autovoice" => VoiceInv
      /\ list = "certauth" => CertInv
  BY AttachInit, OpInit, VoiceInit, CertInit
<1> QED  BY <1>1, <1>2, <1>3 DEF ListsInv

LEMMA ListsReload ==
  ASSUME ListsInv, list' = list, args' = args, known' = known, skew' = skew,
         entries' = Ml!Loaded, entriesReg' = Ml!Stored
  PROVE  ListsInv'
<1>1. CASE list = "watch"
  <2>1. WatchInv'  BY <1>1, WatchReload DEF ListsInv
  <2> QED  BY <1>1, <2>1 DEF ListsInv
<1>2. CASE list = "perform"
  <2>1. PerformInv'  BY <1>2, PerformReload DEF ListsInv
  <2> QED  BY <1>2, <2>1 DEF ListsInv
<1>3. CASE list = "alias"
  <2>1. AliasInv /\ entries' = entries /\ entriesReg' = entriesReg  BY <1>3, AliasLoads DEF ListsInv
  <2>2. AliasInv'  BY <2>1 DEF AliasInv
  <2> QED  BY <1>3, <2>2 DEF ListsInv
<1>4. CASE list = "autocycle"
  <2>1. CycleInv'  BY <1>4, CycleReload DEF ListsInv
  <2> QED  BY <1>4, <2>1 DEF ListsInv
<1>5. CASE list = "autoattach"
  <2>1. AttachInv'  BY <1>5, AttachReload DEF ListsInv
  <2> QED  BY <1>5, <2>1 DEF ListsInv
<1>6. CASE list = "autoop"
  <2>1. OpInv'  BY <1>6, OpReload DEF ListsInv
  <2> QED  BY <1>6, <2>1 DEF ListsInv
<1>7. CASE list = "autovoice"
  <2>1. VoiceInv'  BY <1>7, VoiceReload DEF ListsInv
  <2> QED  BY <1>7, <2>1 DEF ListsInv
<1>8. CASE list = "certauth"
  <2>1. CertInv /\ (~skew => entries' = entries /\ entriesReg' = entriesReg)  BY <1>8, CertLoads DEF ListsInv
  <2>2. CertInv'  BY <2>1 DEF CertInv
  <2> QED  BY <1>8, <2>2 DEF ListsInv
<1> QED  BY <1>1, <1>2, <1>3, <1>4, <1>5, <1>6, <1>7, <1>8 DEF ListsInv, Ml!ListModules

LEMMA ListsStep == ASSUME ListsInv, Ml!Next PROVE ListsInv'
<1>0. list' = list /\ args' = args  BY ListedNext
<1>1. CASE /\ entries' = Ml!Loaded /\ entriesReg' = Ml!Stored /\ known' = known /\ skew' = skew
  BY <1>0, <1>1, ListsReload
<1>2. CASE /\ known' = known /\ skew' = skew /\ list = "watch"
           /\ Ml!Watch \/ Ml!WatchRemove \/ Ml!WatchClear \/ Ml!WatchSet \/ Ml!WatchSetSources
  <2>1. WatchInv'  BY <1>2, WatchStep DEF ListsInv
  <2> QED  BY <1>0, <1>2, <2>1 DEF ListsInv
<1>3. CASE /\ known' = known /\ skew' = skew /\ list = "perform"
           /\ Ml!PerformAdd \/ Ml!PerformDel \/ Ml!PerformSwap \/ Ml!PerformPost
  <2>1. PerformInv'  BY <1>3, PerformStep DEF ListsInv
  <2> QED  BY <1>0, <1>3, <2>1 DEF ListsInv
<1>4. CASE /\ known' = known /\ skew' = skew /\ list = "alias"
           /\ \/ Ml!CreateCommand \/ Ml!DeleteCommand \/ Ml!AddCmd
              \/ Ml!InsertCommand \/ Ml!RemoveCommand \/ Ml!ClearCommand
  <2>1. AliasInv'  BY <1>4, AliasStep DEF ListsInv
  <2> QED  BY <1>0, <1>4, <2>1 DEF ListsInv
<1>5. CASE known' = known /\ skew' = skew /\ list = "autocycle" /\ (Ml!CycleAdd \/ Ml!CycleDel)
  <2>1. CycleInv'  BY <1>0, <1>5, CycleStep DEF ListsInv
  <2> QED  BY <1>0, <1>5, <2>1 DEF ListsInv
<1>6. CASE /\ known' = known /\ skew' = skew /\ list = "autoattach"
           /\ Ml!AttachAdd \/ Ml!AttachDel \/ Ml!AttachSwap
  <2>1. AttachInv'  BY <1>0, <1>6, AttachStep DEF ListsInv
  <2> QED  BY <1>0, <1>6, <2>1 DEF ListsInv
<1>7. CASE /\ list = "autoop" /\ ~skew /\ known' = known
           /\ Ml!OpAddUser \/ Ml!OpDelUser \/ Ml!OpAddChans \/ Ml!OpDelChans \/ Ml!OpAddMasks \/ Ml!OpDelMasks
  <2>1. OpInv'  BY <1>7, OpStep DEF ListsInv
  <2>2. skew' \in BOOLEAN
    <3>1. \A n : Ml!Differs(n) \in BOOLEAN  BY DEF Ml!Differs
    <3>2. Ml!OpAddUser => skew' = skew \/ \E n : skew' = Ml!Differs(n)
      BY DEF Ml!OpAddUser, Ml!AddUser
    <3>3. Ml!OpDelUser => skew' = skew \/ \E n : skew' = Ml!Differs(n)
      BY DEF Ml!OpDelUser, Ml!DelUser
    <3>4. Ml!OpAddChans => skew' = skew \/ \E n : skew' = Ml!Differs(n)
      BY DEF Ml!OpAddChans, Ml!Store
    <3>5. Ml!OpDelChans => skew' = skew \/ \E n : skew' = Ml!Differs(n)
      BY DEF Ml!OpDelChans, Ml!Store
    <3>6. Ml!OpAddMasks => skew' = skew \/ \E n : skew' = Ml!Differs(n)
      BY DEF Ml!OpAddMasks, Ml!Store
    <3>7. Ml!OpDelMasks => skew' = skew \/ \E n : skew' = Ml!Differs(n)
      BY DEF Ml!OpDelMasks, Ml!DelUser, Ml!Store
    <3>8. skew' = skew \/ \E n : skew' = Ml!Differs(n)  BY <1>7, <3>2, <3>3, <3>4, <3>5, <3>6, <3>7
    <3> QED  BY <3>1, <3>8 DEF ListsInv
  <2> QED  BY <1>0, <1>7, <2>1, <2>2 DEF ListsInv
<1>8. CASE /\ list = "autovoice" /\ ~skew /\ known' = known
           /\ Ml!VoiceAddUser \/ Ml!VoiceDelUser \/ Ml!VoiceAddChans \/ Ml!VoiceDelChans
  <2>1. VoiceInv'  BY <1>0, <1>8, VoiceStep DEF ListsInv
  <2>2. skew' \in BOOLEAN
    <3>1. \A n : Ml!Differs(n) \in BOOLEAN  BY DEF Ml!Differs
    <3>2. Ml!VoiceAddUser => skew' = skew \/ \E n : skew' = Ml!Differs(n)
      BY DEF Ml!VoiceAddUser, Ml!AddUser
    <3>3. Ml!VoiceDelUser => skew' = skew \/ \E n : skew' = Ml!Differs(n)
      BY DEF Ml!VoiceDelUser, Ml!DelUser
    <3>4. Ml!VoiceAddChans => skew' = skew \/ \E n : skew' = Ml!Differs(n)
      BY DEF Ml!VoiceAddChans, Ml!Store
    <3>5. Ml!VoiceDelChans => skew' = skew \/ \E n : skew' = Ml!Differs(n)
      BY DEF Ml!VoiceDelChans, Ml!Store
    <3>6. skew' = skew \/ \E n : skew' = Ml!Differs(n)  BY <1>8, <3>2, <3>3, <3>4, <3>5
    <3> QED  BY <3>1, <3>6 DEF ListsInv
  <2> QED  BY <1>0, <1>8, <2>1, <2>2 DEF ListsInv
<1>9. CASE /\ list = "certauth" /\ ~skew
           /\ Ml!AddKey \/ Ml!DelKey \/ Ml!OnPostRehash \/ Ml!AddOwner \/ Ml!DelOwner
  <2>1. CertInv' /\ known' \subseteq Ml!Owners /\ skew' \in BOOLEAN  BY <1>9, CertStep DEF ListsInv
  <2> QED  BY <1>0, <1>9, <2>1 DEF ListsInv
<1> QED  BY <1>1, <1>2, <1>3, <1>4, <1>5, <1>6, <1>7, <1>8, <1>9, ListedNext

LEMMA ListsStutter == ListsInv /\ UNCHANGED mlVars => ListsInv'
  BY DEF ListsInv, WatchInv, PerformInv, AliasInv, CycleInv, AttachInv, OpInv, VoiceInv, CertInv, mlVars

LEMMA ListsRight == ListsInv => Ml!TypeOK /\ Ml!RestartKeeps
<1> SUFFICES ASSUME ListsInv PROVE Ml!TypeOK /\ Ml!RestartKeeps  OBVIOUS
<1>1. Ml!TypeOK  BY DEF ListsInv, Ml!TypeOK
<1> HIDE DEF Ml!Loaded, Ml!Does
<1>2. CASE list = "watch"
  <2>1. Ml!Does(Ml!Loaded) = Ml!Does(entries)  BY <1>2, WatchRight DEF ListsInv
  <2> QED  BY <1>1, <2>1 DEF Ml!RestartKeeps
<1>3. CASE list = "perform"
  <2>1. (\A c \in Ml!ToSet(entries) : c.layers = 0 /\ c.text # "empty") => Ml!Loaded = entries
    BY <1>3, PerformRight DEF ListsInv
  <2> QED  BY <1>1, <1>3, <2>1 DEF Ml!RestartKeeps
<1>4. CASE list = "alias"
  <2>1. Ml!Loaded = entries  BY <1>4, AliasLoads DEF ListsInv
  <2> QED  BY <1>1, <2>1 DEF Ml!RestartKeeps
<1>5. CASE list = "autocycle"
  <2>1. args = <<>> /\ (\E c \in Ml!ToSet(entries) : ~c.neg) => Ml!Does(Ml!Loaded) = Ml!Does(entries)
    BY <1>5, CycleRight DEF ListsInv
  <2> QED  BY <1>1, <1>5, <2>1 DEF Ml!RestartKeeps
<1>6. CASE list = "autoattach"
  <2>1. args = <<>> => Ml!Does(Ml!Loaded) = Ml!Does(entries)  BY <1>6, AttachRight DEF ListsInv
  <2> QED  BY <1>1, <1>6, <2>1 DEF Ml!RestartKeeps
<1>7. CASE list = "autoop"
  <2>1. ~skew /\ (\A u \in DOMAIN entries : entries[u].key # "empty") => Ml!Loaded = entries
    BY <1>7, OpRight DEF ListsInv
  <2> QED  BY <1>1, <1>7, <2>1 DEF Ml!RestartKeeps
<1>8. CASE list = "autovoice"
  <2>1. ~skew /\ args = <<>> => Ml!Loaded = entries  BY <1>8, VoiceRight DEF ListsInv
  <2> QED  BY <1>1, <1>8, <2>1 DEF Ml!RestartKeeps
<1>9. CASE list = "certauth"
  <2>1. ~skew => Ml!Loaded = entries  BY <1>9, CertLoads DEF ListsInv
  <2> QED  BY <1>1, <1>9, <2>1 DEF Ml!RestartKeeps
<1> QED  BY <1>2, <1>3, <1>4, <1>5, <1>6, <1>7, <1>8, <1>9 DEF ListsInv, Ml!ListModules

LEMMA ListsNext ==
  ListsInv /\ [PartsNext]_<<part, vars, wbVars, slVars, mhVars, ownVars>> => ListsInv'
<1>1. ASSUME PartsNext PROVE Ml!Next \/ UNCHANGED mlVars
  BY <1>1 DEF PartsNext, ownVars
<1> QED  BY <1>1, ListsStep, ListsStutter DEF ownVars

-----------------------------------------------------------------------------
(* What is kept *)

\* What was saved is there again: a setting after a restart and in a clone, a listener in
\* znc.conf and with its socket, and the list of a module after a reload; and the messages of
\* awaystore but for those that a file that can not be read or written, the command Pass or a
\* death of ZNC costs, which are counted off where it happens (AwayStore).  Each has an
\* inductive invariant of its own.
THEOREM SavedIsThere == PartsSpec => []Durable
<1>1. PartsInit => SettingInv /\ AwayStoreInv /\ ListenersInv /\ ListsInv
  BY SettingInit, AwayStoreInit, ListenersInit, ListsInit DEF PartsInit
<1>2. SettingInv /\ AwayStoreInv /\ ListenersInv /\ ListsInv => Durable
  BY SettingRight, AwayStoreRight, ListenersRight, ListsRight DEF Durable
<1> QED  BY <1>1, <1>2, SettingNext, AwayStoreNext, ListenersNext, ListsNext, PTL DEF PartsSpec
=============================================================================
