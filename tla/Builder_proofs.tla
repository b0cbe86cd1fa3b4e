--------------------------- MODULE Builder_proofs ---------------------------
(***************************************************************************)
(* Proofs about Registry and Builder, for any names and any sequence of    *)
(* calls: the name spaces stay apart, the error type stays inert, and a    *)
(* compiled program has the types it was resolved with.                    *)
(***************************************************************************)
EXTENDS Builder, SequenceTheorems, TLAPS

-----------------------------------------------------------------------------
(* Maps *)

LEMMA WithType ==
    ASSUME NEW keys, NEW values, NEW m, IsMap(m, keys, values),
           NEW k \in keys, NEW v \in values
    PROVE  IsMap(With(m, k, v), keys, values)
BY DEF IsMap, With

LEMMA NoFieldsType == NoFields \in Fields
<1>1. NoFields \in [{} -> Name]
  BY DEF NoFields
<1>. QED
  BY <1>1 DEF Fields

LEMMA FieldsType ==
    ASSUME NEW f \in Fields
    PROVE  DOMAIN f \subseteq Member /\ f \in [DOMAIN f -> Name]
BY DEF Fields

LEMMA KeyTypes ==
    /\ \A tok \in Operator, l, r \in Name : <<"binary", tok, l, r>> \in RuleKey
    /\ \A tok \in Operator, t \in Name : <<"unary", tok, t>> \in RuleKey
    /\ \A t \in Name, m \in Member : <<"member", t, m>> \in RuleKey
    /\ \A t \in Name, m \in Member : <<"call", t, m>> \in RuleKey
    /\ \A l, r \in Name : <<"coerce", l, r>> \in RuleKey
BY DEF RuleKey, BinaryKey, UnaryKey, MemberAccessKey, CallKey, CoerceKey

LEMMA MemberKey ==
    ASSUME NEW t, NEW m
    PROVE  TypesOf(<<"member", t, m>>) = {t}
<1>1. <<"member", t, m>> \notin BinaryKey
  BY DEF BinaryKey
<1>2. <<"member", t, m>> \notin UnaryKey /\ <<"member", t, m>> \notin CoerceKey
  BY DEF UnaryKey, CoerceKey
<1>. QED
  BY <1>1, <1>2 DEF TypesOf

-----------------------------------------------------------------------------
(* What a step does to the tables *)

\* A registered type: a host's or a module's.
NewType(n) ==
    \E def \in TypeDef :
        /\ FreeName(n) /\ def.fields = NoFields
        /\ types' = With(types, n, def)
        /\ \/ def.shape # "MODULE" /\ modules' = modules
           \/ def.shape = "MODULE" /\ modules' = modules \cup {n}
        /\ UNCHANGED <<declKinds, rules>>

NewKind(w) ==
    \E allowed \in SUBSET Name :
        /\ FreeWord(w) /\ KnownTypes(allowed)
        /\ declKinds' = With(declKinds, w, allowed)
        /\ UNCHANGED <<types, modules, rules>>

NewRule(key) ==
    \E result \in Name :
        /\ FreeKey(key) /\ ErrorType \notin TypesOf(key) \cup {result}
        /\ rules' = With(rules, key, result)
        /\ UNCHANGED <<types, modules, declKinds>>

NewScriptType(n) ==
    \E fields \in Fields :
        /\ ScriptTypeFree(n, fields)
        /\ types' = With(types, n, [shape |-> "", fields |-> fields])
        /\ rules' = FieldRules(n, fields)
        /\ UNCHANGED <<modules, declKinds>>

\* What stdlib.Register adds of the library.
NewLibrary ==
    /\ types' = LibraryTypes
    /\ modules' = modules \cup LibraryModules
    /\ rules' = LibraryRules
    /\ UNCHANGED declKinds

TableStep ==
    \/ UNCHANGED tables
    \/ NewLibrary
    \/ \E n \in Name : NewType(n) \/ NewKind(n) \/ NewScriptType(n)
    \/ \E key \in RuleKey : NewRule(key)

LEMMA FailStep == ASSUME NEW code, Fail(code) PROVE UNCHANGED tables
BY DEF Fail, tables

LEMMA RegisterStep ==
    ASSUME NEW key \in RuleKey, NEW result \in Name, NEW params,
           Register(key, result, params)
    PROVE  TableStep
BY FailStep DEF Register, Refuses, Accepts, NotReserved, TableStep, NewRule

\* An entry that is registered is an entry of the library under a free name.
LEMMA InstalledFree ==
    ASSUME NEW k \in Installed
    PROVE  k \in DOMAIN Library /\ IsEntry(Library[k]) /\ FreeName(Library[k].name)
<1>1. k \in DOMAIN Library /\ \A j \in 1..k : ~Taken(Library[j])
  BY DEF Installed
<1>2. k \in 1..k
  BY <1>1, LibraryAssumption
<1>. QED
  BY <1>1, <1>2, LibraryAssumption DEF Taken

\* A type keeps its definition, or is one of an entry.
LEMMA LibraryTypesAre ==
    /\ DOMAIN LibraryTypes = DOMAIN types \cup {Library[k].name : k \in Installed}
    /\ \A n \in DOMAIN types : LibraryTypes[n] = types[n]
    /\ \A n \in DOMAIN LibraryTypes \ DOMAIN types :
          \E k \in Installed :
             /\ Library[k].name = n
             /\ LibraryTypes[n] = [shape |-> Library[k].shape, fields |-> NoFields]
<1>. DEFINE names == {Library[k].name : k \in Installed}
            pick(n) == CHOOSE k \in Installed : Library[k].name = n
<1>1. LibraryTypes = [n \in DOMAIN types \cup names |->
                        IF n \in DOMAIN types THEN types[n]
                        ELSE [shape |-> Library[pick(n)].shape, fields |-> NoFields]]
  BY DEF LibraryTypes
<1>2. \A n \in names : pick(n) \in Installed /\ Library[pick(n)].name = n
  OBVIOUS
<1>. HIDE DEF pick
<1>. QED
  BY <1>1, <1>2

\* A rule keeps its type, or is one of an entry.
LEMMA LibraryRulesAre ==
    /\ DOMAIN LibraryRules = DOMAIN rules \cup UNION {DOMAIN Library[k].rules : k \in Installed}
    /\ \A key \in DOMAIN rules : LibraryRules[key] = rules[key]
    /\ \A key \in DOMAIN LibraryRules \ DOMAIN rules :
          \E k \in Installed : /\ key \in DOMAIN Library[k].rules
                              /\ LibraryRules[key] = Library[k].rules[key]
<1>. DEFINE keys == UNION {DOMAIN Library[k].rules : k \in Installed}
            pick(key) == CHOOSE k \in Installed : key \in DOMAIN Library[k].rules
<1>1. LibraryRules = [key \in DOMAIN rules \cup keys |->
                        IF key \in DOMAIN rules THEN rules[key]
                        ELSE Library[pick(key)].rules[key]]
  BY DEF LibraryRules
<1>2. \A key \in keys : pick(key) \in Installed /\ key \in DOMAIN Library[pick(key)].rules
  OBVIOUS
<1>. HIDE DEF pick
<1>. QED
  BY <1>1, <1>2

LEMMA LibraryStep == ASSUME RegisterLibrary PROVE TableStep
BY FailStep DEF RegisterLibrary, TableStep, NewLibrary

LEMMA HostStep == ASSUME RegisterCalls PROVE TableStep
<1>1. ASSUME NEW n \in Name, RegisterModule(n) PROVE TableStep
  <2>1. [shape |-> "MODULE", fields |-> NoFields] \in TypeDef
    BY NoFieldsType DEF TypeDef, Shape
  <2>. QED
    BY <1>1, <2>1, FailStep
    DEF RegisterModule, Refuses, Accepts, AddType, TableStep, NewType
<1>2. ASSUME NEW n \in Name, NEW s \in Shape, RegisterType(n, s) PROVE TableStep
  <2>1. [shape |-> s, fields |-> NoFields] \in TypeDef
    BY NoFieldsType DEF TypeDef
  <2>. QED
    BY <1>2, <2>1, FailStep
    DEF RegisterType, Refuses, Accepts, AddType, TableStep, NewType
<1>3. ASSUME NEW w \in Name, NEW allowed \in TypeSet, RegisterDeclKind(w, allowed)
      PROVE  TableStep
  BY <1>3, FailStep, NamesAssumption
  DEF RegisterDeclKind, Refuses, Accepts, TableStep, NewKind
<1>4. ASSUME NEW tok \in Operator, NEW l \in RuleType, NEW r \in RuleType,
             NEW result \in RuleType, RegisterBinary(tok, l, r, result)
      PROVE  TableStep
  BY <1>4, RegisterStep, KeyTypes, NamesAssumption DEF RegisterBinary
<1>5. ASSUME NEW l \in RuleType, NEW r \in RuleType, NEW result \in RuleType,
             RegisterCoercion(l, r, result)
      PROVE  TableStep
  BY <1>5, RegisterStep, KeyTypes, NamesAssumption DEF RegisterCoercion
<1>6. ASSUME NEW tok \in Operator, NEW t \in RuleType, NEW result \in RuleType,
             RegisterUnary(tok, t, result)
      PROVE  TableStep
  BY <1>6, RegisterStep, KeyTypes, NamesAssumption DEF RegisterUnary
<1>7. ASSUME NEW t \in RuleType, NEW m \in Member, NEW result \in RuleType,
             RegisterMemberAccess(t, m, result)
      PROVE  TableStep
  BY <1>7, RegisterStep, KeyTypes, NamesAssumption DEF RegisterMemberAccess
<1>8. ASSUME NEW t \in RuleType, NEW m \in Member, NEW params \in TypeSet,
             NEW result \in RuleType, RegisterCall(t, m, params, result)
      PROVE  TableStep
  BY <1>8, RegisterStep, KeyTypes, NamesAssumption DEF RegisterCall
<1>. QED
  BY <1>1, <1>2, <1>3, <1>4, <1>5, <1>6, <1>7, <1>8, LibraryStep
  DEF RegisterCalls, RegisterEntry

LEMMA BuilderTableStep == ASSUME TypeOK, [Next]_vars PROVE TableStep
<1>1. CASE UNCHANGED vars
  BY <1>1 DEF vars, regVars, tables, TableStep
<1>2. CASE HostRegisters
  BY <1>2, HostStep DEF HostRegisters
<1>3. ASSUME NEW s \in Script, Compile(s) PROVE TableStep
  BY <1>3, FailStep DEF Compile, tables, regVars, TableStep
<1>4. CASE ResolvePort
  <2>1. NextPort \in Port
    BY <1>4 DEF TypeOK, ResolvePort, NextPort
  <2>2. CASE RegisterScriptType(NextPort.type, NextPort.fields)
    BY <2>1, <2>2, FailStep
    DEF RegisterScriptType, Refuses, Accepts, AddType, Port, TableStep, NewScriptType
  <2>3. CASE UNCHANGED regVars
    BY <2>3 DEF regVars, tables, TableStep
  <2>. QED
    BY <1>4, <2>2, <2>3 DEF ResolvePort, ResolvesPort
<1>5. CASE FinishCompile
  BY <1>5 DEF FinishCompile, TableStep
<1>. QED
  BY <1>1, <1>2, <1>3, <1>4, <1>5 DEF Next

-----------------------------------------------------------------------------
(* The tables *)

TablesTyped ==
    /\ IsMap(types, Name, TypeDef)
    /\ modules \in SUBSET Name
    /\ IsMap(declKinds, Name, SUBSET Name)
    /\ IsMap(rules, RuleKey, Name)

LEMMA TablesTypedStep == ASSUME TablesTyped, TableStep PROVE TablesTyped'
<1>1. CASE UNCHANGED tables
  BY <1>1 DEF TablesTyped, tables, IsMap
<1>2. ASSUME NEW n \in Name, NewType(n) PROVE TablesTyped'
  BY <1>2 DEF With, TablesTyped, NewType, IsMap
<1>3. ASSUME NEW n \in Name, NewKind(n) PROVE TablesTyped'
  BY <1>3 DEF With, TablesTyped, NewKind, IsMap
<1>4. ASSUME NEW key \in RuleKey, NewRule(key) PROVE TablesTyped'
  BY <1>4 DEF With, TablesTyped, NewRule, IsMap
<1>5. ASSUME NEW n \in Name, NewScriptType(n) PROVE TablesTyped'
  <2>1. PICK fields \in Fields :
           /\ types' = With(types, n, [shape |-> "", fields |-> fields])
           /\ rules' = FieldRules(n, fields)
           /\ UNCHANGED <<modules, declKinds>>
    BY <1>5 DEF NewScriptType
  <2>2. [shape |-> "", fields |-> fields] \in TypeDef
    BY DEF TypeDef, Shape
  <2>3. IsMap(types', Name, TypeDef)
    BY <2>1, <2>2, WithType DEF TablesTyped
  <2>4. IsMap(rules', RuleKey, Name)
    <3>. DEFINE keys == {<<"member", n, m>> : m \in DOMAIN fields}
    <3>1. keys \subseteq RuleKey /\ \A k \in keys : fields[k[3]] \in Name
      BY FieldsType, KeyTypes
    <3>2. DOMAIN rules \subseteq RuleKey /\ \A k \in DOMAIN rules : rules[k] \in Name
      BY DEF TablesTyped, IsMap
    <3>3. rules' = [k \in DOMAIN rules \cup keys |->
                       IF k \in DOMAIN rules THEN rules[k] ELSE fields[k[3]]]
      BY <2>1 DEF FieldRules
    <3>. HIDE DEF keys
    <3>. QED
      BY <3>1, <3>2, <3>3 DEF IsMap
  <2>. QED
    BY <2>1, <2>3, <2>4 DEF TablesTyped, IsMap
<1>6. CASE NewLibrary
  <2>. USE DEF NewLibrary
  <2>1. /\ DOMAIN types \subseteq Name /\ \A n \in DOMAIN types : types[n] \in TypeDef
        /\ DOMAIN rules \subseteq RuleKey /\ \A k \in DOMAIN rules : rules[k] \in Name
    BY DEF TablesTyped, IsMap
  <2>2. \A k \in Installed : /\ Library[k].name \in Name
                             /\ [shape |-> Library[k].shape, fields |-> NoFields] \in TypeDef
    BY InstalledFree, NoFieldsType DEF IsEntry, TypeDef, Shape
  <2>3. \A k \in Installed : \A key \in DOMAIN Library[k].rules :
           key \in RuleKey /\ Library[k].rules[key] \in Name
    BY InstalledFree DEF IsEntry, IsMap
  <2>4. LibraryTypes = [n \in DOMAIN LibraryTypes |-> LibraryTypes[n]]
    BY DEF LibraryTypes
  <2>5. LibraryRules = [key \in DOMAIN LibraryRules |-> LibraryRules[key]]
    BY DEF LibraryRules
  <2>6. IsMap(types', Name, TypeDef)
    <3>1. DOMAIN LibraryTypes \subseteq Name
      BY <2>1, <2>2, LibraryTypesAre
    <3>2. \A n \in DOMAIN LibraryTypes : LibraryTypes[n] \in TypeDef
      BY <2>1, <2>2, LibraryTypesAre
    <3>. QED
      BY <1>6, <2>4, <3>1, <3>2 DEF IsMap
  <2>7. IsMap(rules', RuleKey, Name)
    <3>1. DOMAIN LibraryRules \subseteq RuleKey
      BY <2>1, <2>3, LibraryRulesAre
    <3>2. \A key \in DOMAIN LibraryRules : LibraryRules[key] \in Name
      BY <2>1, <2>3, LibraryRulesAre
    <3>. QED
      BY <1>6, <2>5, <3>1, <3>2 DEF IsMap
  <2>8. modules' \in SUBSET Name
    BY <1>6, <2>2 DEF LibraryModules, TablesTyped
  <2>9. IsMap(declKinds', Name, SUBSET Name)
    BY <1>6 DEF TablesTyped
  <2>. QED
    BY <2>6, <2>7, <2>8, <2>9 DEF TablesTyped
<1>. QED
  BY <1>1, <1>2, <1>3, <1>4, <1>5, <1>6 DEF TableStep

TablesInv == TablesTyped /\ NamesDisjoint /\ ErrorTypeInert

LEMMA TablesInvStep == ASSUME TablesInv, TableStep PROVE TablesInv'
<1>. USE DEF TablesInv
<1>1. CASE UNCHANGED tables
  BY <1>1, TablesTypedStep
  DEF tables, NamesDisjoint, ErrorTypeInert
<1>2. ASSUME NEW n \in Name, NewType(n) PROVE TablesInv'
  <2>1. PICK def \in TypeDef :
           /\ FreeName(n) /\ def.fields = NoFields
           /\ types' = With(types, n, def)
           /\ \/ def.shape # "MODULE" /\ modules' = modules
              \/ def.shape = "MODULE" /\ modules' = modules \cup {n}
           /\ UNCHANGED <<declKinds, rules>>
    BY <1>2 DEF NewType
  <2>2. /\ DOMAIN types' = DOMAIN types \cup {n}
        /\ types'[n] = def
        /\ \A x \in DOMAIN types : types'[x] = types[x]
    BY <2>1 DEF With, FreeName
  <2>3. NamesDisjoint'
    BY <2>1, <2>2 DEF NamesDisjoint, FreeName
  <2>4. ErrorTypeInert'
    BY <2>1, <2>2 DEF ErrorTypeInert, FreeName, NoFields
  <2>. QED
    BY <1>2, <2>3, <2>4, TablesTypedStep
<1>3. ASSUME NEW n \in Name, NewKind(n) PROVE TablesInv'
  <2>1. PICK allowed \in SUBSET Name :
           /\ FreeWord(n) /\ KnownTypes(allowed)
           /\ declKinds' = With(declKinds, n, allowed)
           /\ UNCHANGED <<types, modules, rules>>
    BY <1>3 DEF NewKind
  <2>2. /\ DOMAIN declKinds' = DOMAIN declKinds \cup {n}
        /\ declKinds'[n] = allowed
        /\ \A x \in DOMAIN declKinds : declKinds'[x] = declKinds[x]
    BY <2>1 DEF With, FreeWord
  <2>3. NamesDisjoint'
    BY <2>1, <2>2 DEF NamesDisjoint, FreeWord, KnownTypes
  <2>4. ErrorTypeInert'
    BY <2>1 DEF ErrorTypeInert
  <2>. QED
    BY <1>3, <2>3, <2>4, TablesTypedStep
<1>4. ASSUME NEW key \in RuleKey, NewRule(key) PROVE TablesInv'
  <2>1. PICK result \in Name :
           /\ FreeKey(key) /\ ErrorType \notin TypesOf(key) \cup {result}
           /\ rules' = With(rules, key, result)
           /\ UNCHANGED <<types, modules, declKinds>>
    BY <1>4 DEF NewRule
  <2>2. /\ DOMAIN rules' = DOMAIN rules \cup {key}
        /\ rules'[key] = result
        /\ \A x \in DOMAIN rules : rules'[x] = rules[x]
    BY <2>1 DEF With, FreeKey
  <2>3. NamesDisjoint'
    BY <2>1 DEF NamesDisjoint
  <2>4. ErrorTypeInert'
    BY <2>1, <2>2 DEF ErrorTypeInert
  <2>. QED
    BY <1>4, <2>3, <2>4, TablesTypedStep
<1>5. ASSUME NEW n \in Name, NewScriptType(n) PROVE TablesInv'
  <2>1. PICK fs \in Fields :
           /\ ScriptTypeFree(n, fs)
           /\ types' = With(types, n, [shape |-> "", fields |-> fs])
           /\ rules' = FieldRules(n, fs)
           /\ UNCHANGED <<modules, declKinds>>
    BY <1>5 DEF NewScriptType
  <2>2. /\ DOMAIN types' = DOMAIN types \cup {n}
        /\ types'[n] = [shape |-> "", fields |-> fs]
        /\ \A x \in DOMAIN types : types'[x] = types[x]
    BY <2>1 DEF With, ScriptTypeFree, FreeName
  <2>0. types'[n].shape = "" /\ types'[n].fields = fs
    <3>1. types'[n] = [shape |-> "", fields |-> fs]
      BY <2>2
    <3>2. [shape |-> "", fields |-> fs].shape = ""
      OBVIOUS
    <3>3. [shape |-> "", fields |-> fs].fields = fs
      OBVIOUS
    <3>. QED
      BY <3>1, <3>2, <3>3, Zenon
  <2>3. NamesDisjoint'
    <3>1. n \notin DOMAIN declKinds /\ n \notin DOMAIN types
      BY <2>1 DEF ScriptTypeFree, FreeName
    <3>2. DOMAIN declKinds' \cap DOMAIN types' = {} /\ DOMAIN declKinds' \cap Unusable = {}
      BY <2>1, <2>2, <3>1 DEF NamesDisjoint
    <3>3. \A x : x \in modules' <=> x \in DOMAIN types' /\ types'[x].shape = "MODULE"
      BY <2>0, <2>1, <2>2, <3>1 DEF NamesDisjoint
    <3>4. \A w \in DOMAIN declKinds' : declKinds'[w] \subseteq DOMAIN types'
      BY <2>1, <2>2 DEF NamesDisjoint
    <3>. QED
      BY <3>2, <3>3, <3>4 DEF NamesDisjoint
  <2>4. ErrorTypeInert'
    <3>1. \A k \in DOMAIN rules' : rules'[k] # ErrorType /\ ErrorType \notin TypesOf(k)
      <4>1. ASSUME NEW k \in DOMAIN rules', k \in DOMAIN rules
            PROVE  rules'[k] # ErrorType /\ ErrorType \notin TypesOf(k)
        BY <2>1, <4>1 DEF FieldRules, ErrorTypeInert
      <4>2. ASSUME NEW k \in DOMAIN rules', k \notin DOMAIN rules
            PROVE  rules'[k] # ErrorType /\ ErrorType \notin TypesOf(k)
        <5>1. PICK m \in DOMAIN fs : k = <<"member", n, m>>
          BY <2>1, <4>2 DEF FieldRules
        <5>2. rules'[k] = fs[m]
          BY <2>1, <4>2, <5>1 DEF FieldRules
        <5>3. TypesOf(k) = {n}
          BY <5>1, MemberKey
        <5>. QED
          BY <2>1, <5>2, <5>3 DEF ScriptTypeFree, FreeName
      <4>. QED
        BY <4>1, <4>2
    <3>2. \A x \in DOMAIN types' : \A m \in DOMAIN types'[x].fields :
             types'[x].fields[m] # ErrorType
      BY <2>0, <2>1, <2>2 DEF ErrorTypeInert, ScriptTypeFree
    <3>. QED
      BY <2>1, <2>2, <3>1, <3>2 DEF ErrorTypeInert, ScriptTypeFree, FreeName
  <2>. QED
    BY <1>5, <2>3, <2>4, TablesTypedStep
<1>6. CASE NewLibrary
  <2>1. /\ types' = LibraryTypes /\ modules' = modules \cup LibraryModules
        /\ rules' = LibraryRules /\ declKinds' = declKinds
    BY <1>6 DEF NewLibrary
  <2>2. \A k \in Installed : /\ Library[k].name # ErrorType
                             /\ Library[k].name \notin DOMAIN declKinds
                             /\ Library[k].name \notin DOMAIN types
    BY InstalledFree DEF FreeName
  <2>3. ASSUME NEW n \in DOMAIN types', n \notin DOMAIN types
        PROVE  \E k \in Installed :
                  /\ Library[k].name = n /\ types'[n].fields = NoFields
                  /\ types'[n].shape = Library[k].shape
    <3>1. PICK k \in Installed :
             /\ Library[k].name = n
             /\ types'[n] = [shape |-> Library[k].shape, fields |-> NoFields]
      BY <2>1, <2>3, LibraryTypesAre
    <3>. QED
      BY <3>1
  <2>4. /\ DOMAIN types' = DOMAIN types \cup {Library[k].name : k \in Installed}
        /\ \A n \in DOMAIN types : types'[n] = types[n]
    BY <2>1, LibraryTypesAre
  <2>5. NamesDisjoint'
    <3>1. DOMAIN declKinds' \cap DOMAIN types' = {} /\ DOMAIN declKinds' \cap Unusable = {}
      BY <2>1, <2>2, <2>4 DEF NamesDisjoint
    <3>2. ASSUME NEW n PROVE n \in modules' <=> n \in DOMAIN types' /\ types'[n].shape = "MODULE"
      <4>1. CASE n \in DOMAIN types
        BY <2>1, <2>2, <2>4, <4>1 DEF NamesDisjoint, LibraryModules
      <4>2. CASE n \notin DOMAIN types
        <5>1. n \in modules' <=> \E k \in Installed : Library[k].name = n /\ Library[k].shape = "MODULE"
          BY <2>1, <4>2 DEF NamesDisjoint, LibraryModules
        <5>2. \A j, k \in Installed : Library[j].name = Library[k].name => j = k
          BY InstalledFree, LibraryAssumption
        <5>. QED
          BY <2>3, <2>4, <4>2, <5>1, <5>2
      <4>. QED
        BY <4>1, <4>2
    <3>3. \A w \in DOMAIN declKinds' : declKinds'[w] \subseteq DOMAIN types'
      BY <2>1, <2>4 DEF NamesDisjoint
    <3>4. modules' = {n \in DOMAIN types' : types'[n].shape = "MODULE"}
      BY <3>2
    <3>. QED
      BY <3>1, <3>3, <3>4 DEF NamesDisjoint
  <2>6. ErrorTypeInert'
    <3>1. ErrorType \notin DOMAIN types'
      BY <2>2, <2>4 DEF ErrorTypeInert
    <3>2. \A k \in Installed : \A key \in DOMAIN Library[k].rules :
             Library[k].rules[key] # ErrorType /\ ErrorType \notin TypesOf(key)
      BY InstalledFree DEF IsEntry
    <3>3. ASSUME NEW key \in DOMAIN rules'
          PROVE  rules'[key] # ErrorType /\ ErrorType \notin TypesOf(key)
      BY <2>1, <3>2, LibraryRulesAre DEF ErrorTypeInert
    <3>4. ASSUME NEW n \in DOMAIN types', NEW m \in DOMAIN types'[n].fields
          PROVE  types'[n].fields[m] # ErrorType
      <4>1. CASE n \in DOMAIN types
        BY <2>4, <4>1 DEF ErrorTypeInert
      <4>2. CASE n \notin DOMAIN types
        BY <2>3, <4>2 DEF NoFields
      <4>. QED
        BY <4>1, <4>2
    <3>. QED
      BY <3>1, <3>3, <3>4 DEF ErrorTypeInert
  <2>. QED
    BY <1>6, <2>5, <2>6, TablesTypedStep DEF TableStep
<1>. QED
  BY <1>1, <1>2, <1>3, <1>4, <1>5, <1>6 DEF TableStep

-----------------------------------------------------------------------------
(* The builder *)

Answered ==
    /\ sealed' = sealed
    /\ answer' \in {"ok", "error", "ErrSealed"}
    /\ library' \in {library, "ok", "error"}

\* A host's registration leaves the seal alone.
LEMMA HostAnswer == ASSUME RegisterCalls PROVE Answered
<1>0. CASE RegisterLibrary
  BY <1>0 DEF RegisterLibrary, Fail, Answered
<1>. SUFFICES ASSUME RegisterEntry, UNCHANGED library PROVE Answered
  BY <1>0 DEF RegisterCalls
<1>. USE DEF Refuses, Accepts, Fail, Answered
<1>1. ASSUME NEW n, RegisterModule(n) PROVE Answered
  BY <1>1 DEF RegisterModule
<1>2. ASSUME NEW n, NEW s, RegisterType(n, s) PROVE Answered
  BY <1>2 DEF RegisterType
<1>3. ASSUME NEW w, NEW allowed, RegisterDeclKind(w, allowed) PROVE Answered
  BY <1>3 DEF RegisterDeclKind
<1>4. ASSUME NEW key, NEW result, NEW params, Register(key, result, params)
      PROVE  Answered
  BY <1>4 DEF Register
<1>5. ASSUME \/ \E tok, l, r, result : RegisterBinary(tok, l, r, result)
             \/ \E l, r, result : RegisterCoercion(l, r, result)
             \/ \E tok, t, result : RegisterUnary(tok, t, result)
             \/ \E t, m, result : RegisterMemberAccess(t, m, result)
             \/ \E t, m, params, result : RegisterCall(t, m, params, result)
      PROVE  Answered
  BY <1>4, <1>5, Zenon
  DEF RegisterBinary, RegisterCoercion, RegisterUnary, RegisterMemberAccess,
      RegisterCall
<1>. HIDE DEF Answered
<1>. QED
  BY <1>1, <1>2, <1>3, <1>5 DEF RegisterEntry

LEMMA TypeStep == ASSUME TypeOK, [Next]_vars PROVE TypeOK'
<1>0. TablesTyped'
  BY BuilderTableStep, TablesTypedStep DEF TypeOK, RegTypeOK, TablesTyped
<1>. USE DEF tables, regVars, builderVars
<1>1. CASE UNCHANGED vars
  BY <1>0, <1>1 DEF vars, TypeOK, RegTypeOK, TablesTyped
<1>2. CASE HostRegisters
  <2>1. /\ sealed' = sealed /\ answer' \in {"ok", "error", "ErrSealed"}
        /\ library' \in {library, "ok", "error"}
    BY <1>2, HostAnswer DEF HostRegisters, Answered
  <2>. QED
    BY <1>0, <1>2, <2>1 DEF HostRegisters, TypeOK, RegTypeOK, TablesTyped
<1>3. ASSUME NEW s \in Script, Compile(s) PROVE TypeOK'
  <2>1. s.ports \in Seq(Port) /\ s.sound \in BOOLEAN
    BY ScriptAssumption
  <2>2. s.parses => 0 \in 0..Len(s.ports)
    BY <2>1
  <2>. QED
    BY <1>0, <1>3, <2>1, <2>2 DEF Compile, Fail, TypeOK, RegTypeOK, TablesTyped
<1>4. CASE ResolvePort
  <2>1. sealed' = sealed /\ (answer' = answer \/ answer' \in {"ok", "error", "ErrSealed"})
    BY <1>4
    DEF ResolvePort, ResolvesPort, RegisterScriptType, Refuses, Accepts, Fail
  <2>2. resolved' \in 0..Len(ports) /\ ports' = ports
    BY <1>4 DEF ResolvePort, TypeOK
  <2>3. rejected' \in BOOLEAN
    BY <1>4 DEF ResolvePort, ResolvesPort, TypeOK
  <2>. QED
    BY <1>0, <1>4, <2>1, <2>2, <2>3 DEF ResolvePort, TypeOK, RegTypeOK, TablesTyped
<1>5. CASE FinishCompile
  BY <1>0, <1>5 DEF FinishCompile, Seal, TypeOK, RegTypeOK, TablesTyped
<1>. QED
  BY <1>1, <1>2, <1>3, <1>4, <1>5 DEF Next

\* Nothing in the tables is replaced by a step.
LEMMA TablesGrow ==
    ASSUME TableStep
    PROVE  /\ Extends(types, types')
           /\ Extends(declKinds, declKinds')
           /\ Extends(rules, rules')
<1>1. CASE UNCHANGED tables
  BY <1>1 DEF tables, Extends
<1>2. ASSUME NEW n \in Name, NewType(n)
      PROVE  Extends(types, types') /\ UNCHANGED <<declKinds, rules>>
  BY <1>2 DEF NewType, FreeName, With, Extends
<1>3. ASSUME NEW n \in Name, NewKind(n)
      PROVE  Extends(declKinds, declKinds') /\ UNCHANGED <<types, rules>>
  BY <1>3 DEF NewKind, FreeWord, With, Extends
<1>4. ASSUME NEW key \in RuleKey, NewRule(key)
      PROVE  Extends(rules, rules') /\ UNCHANGED <<types, declKinds>>
  BY <1>4 DEF NewRule, FreeKey, With, Extends
<1>5. ASSUME NEW n \in Name, NewScriptType(n)
      PROVE  Extends(types, types') /\ Extends(rules, rules') /\ UNCHANGED declKinds
  BY <1>5 DEF NewScriptType, ScriptTypeFree, FreeName, With, FieldRules, Extends
<1>6. CASE NewLibrary
  BY <1>6, LibraryTypesAre, LibraryRulesAre DEF NewLibrary, Extends
<1>. QED
  BY <1>1, <1>2, <1>3, <1>4, <1>5, <1>6 DEF TableStep, Extends

\* A port has its type.
Owns(p) ==
    /\ p.type \in DOMAIN types
    /\ types[p.type] = [shape |-> "", fields |-> p.fields]
    /\ \A m \in DOMAIN p.fields : <<"member", p.type, m>> \in DOMAIN rules

\* As long as the resolver has no diagnostic, every port it is done with has its
\* type; only a builder that is spent has a program, and its registry is sealed.
Resolved ==
    /\ program \in {"resolving", "executable"} /\ ~rejected
          => \A k \in 1..resolved : Owns(ports[k])
    /\ program = "executable" => ~rejected /\ resolved = Len(ports) /\ sealed
    /\ program # "none" => spent

BInv == TypeOK /\ TablesInv /\ Resolved

LEMMA OwnsKept ==
    ASSUME TableStep, NEW p, Owns(p)
    PROVE  Owns(p)'
BY TablesGrow DEF Owns, Extends

LEMMA ResolvedStep == ASSUME BInv, [Next]_vars PROVE Resolved'
<1>. TypeOK /\ TableStep
  BY BuilderTableStep DEF BInv
<1>. USE DEF regVars, builderVars
<1>1. CASE UNCHANGED vars
  BY <1>1 DEF vars, BInv, Resolved, Owns
<1>2. CASE HostRegisters
  <2>1. sealed' = sealed
    BY <1>2, HostAnswer DEF HostRegisters, Answered
  <2>2. \A k \in 1..resolved : Owns(ports[k]) => Owns(ports[k])'
    BY <1>2, OwnsKept DEF HostRegisters, Owns
  <2>. QED
    BY <1>2, <2>1, <2>2 DEF HostRegisters, BInv, Resolved
<1>3. ASSUME NEW s \in Script, Compile(s) PROVE Resolved'
  <2>1. CASE UNCHANGED <<types, rules, sealed, spent, ports, resolved, rejected, program>>
    BY <2>1 DEF BInv, Resolved, Owns
  <2>2. CASE spent' = TRUE /\ program' = "rejected"
    BY <2>2 DEF Resolved
  <2>3. CASE spent' = TRUE /\ program' = "resolving" /\ resolved' = 0
    BY <2>3 DEF Resolved
  <2>. QED
    BY <1>3, <2>1, <2>2, <2>3 DEF Compile, Fail
<1>4. CASE ResolvePort
  <2>1. /\ resolved \in Nat /\ resolved' = resolved + 1 /\ ports' = ports
        /\ program = "resolving" /\ program' = "resolving" /\ spent' = spent
    BY <1>4 DEF ResolvePort, TypeOK
  <2>2. ASSUME NEW p, p = NextPort, ~rejected' PROVE ~rejected /\ Owns(p)'
    <3>1. ~rejected /\ RegisterScriptType(NextPort.type, NextPort.fields) /\ answer' = "ok"
      BY <1>4, <2>2 DEF ResolvePort, ResolvesPort, TypeOK
    <3>2. /\ types' = With(types, NextPort.type, [shape |-> "", fields |-> NextPort.fields])
          /\ rules' = FieldRules(NextPort.type, NextPort.fields)
      BY <3>1 DEF RegisterScriptType, Refuses, Accepts, AddType, Fail
    <3>. QED
      BY <2>2, <3>1, <3>2 DEF Owns, With, FieldRules
  <2>3. ASSUME ~rejected', NEW k \in 1..resolved' PROVE Owns(ports[k])'
    <3>1. CASE k \in 1..resolved
      <4>1. Owns(ports[k])
        BY <2>1, <2>2, <2>3, <3>1 DEF BInv, Resolved
      <4>. QED
        BY <2>1, <4>1, OwnsKept DEF Owns
    <3>2. CASE k = resolved + 1
      BY <2>1, <2>2, <2>3, <3>2 DEF NextPort, Owns
    <3>. QED
      BY <2>1, <3>1, <3>2
  <2>. QED
    BY <2>1, <2>3 DEF BInv, Resolved
<1>5. CASE FinishCompile
  <2>1. \A k \in 1..resolved : Owns(ports[k]) => Owns(ports[k])'
    BY <1>5, OwnsKept DEF FinishCompile, Owns
  <2>. QED
    BY <1>5, <2>1 DEF FinishCompile, Seal, BInv, Resolved, TypeOK
<1>. QED
  BY <1>1, <1>2, <1>3, <1>4, <1>5 DEF Next

LEMMA BInvInit == ASSUME Init PROVE BInv
<1>. USE DEF Init, DefaultRegistry
<1>0. \A n \in DOMAIN types : types[n] = [shape |-> "SCALAR", fields |-> NoFields]
  OBVIOUS
<1>1. [shape |-> "SCALAR", fields |-> NoFields] \in TypeDef
  BY NoFieldsType DEF TypeDef, Shape
<1>2. DOMAIN NoFields = {} /\ DOMAIN declKinds = {} /\ DOMAIN types = BuiltinType
  BY DEF NoFields
<1>3. TablesTyped
  BY <1>0, <1>1, <1>2, NamesAssumption, RulesAssumption DEF TablesTyped, IsMap
<1>4. \A n \in DOMAIN types : types[n].shape = "SCALAR" /\ types[n].fields = NoFields
  BY <1>0
<1>5. NamesDisjoint
  BY <1>2, <1>4 DEF NamesDisjoint
<1>6. ErrorTypeInert
  BY <1>2, <1>4, NamesAssumption, RulesAssumption DEF ErrorTypeInert
<1>8. ports \in Seq(Port) /\ resolved \in 0..Len(ports)
  BY EmptySeq
<1>9. TypeOK
  BY <1>3, <1>8 DEF TypeOK, RegTypeOK, TablesTyped
<1>10. Resolved
  BY DEF Resolved
<1>. QED
  BY <1>3, <1>5, <1>6, <1>9, <1>10 DEF BInv, TablesInv

\* The inductive invariant: typed tables, separate names, an inert error type,
\* and every port resolved so far registered.
THEOREM BuilderInductive == Spec => []BInv
<1>1. BInv /\ [Next]_vars => BInv'
  BY TypeStep, BuilderTableStep, TablesInvStep, ResolvedStep DEF BInv
<1>. QED
  BY BInvInit, <1>1, PTL DEF Spec

\* Type correctness of the registry and the builder.
THEOREM BuilderTyping == Spec => []TypeOK
BY BuilderInductive, PTL DEF BInv

\* Types, modules and declaration words never share a name, whatever a host
\* registers in whatever order and whatever types a script adds to it.
THEOREM NamesStayDisjoint == Spec => []NamesDisjoint
BY BuilderInductive, PTL DEF BInv, TablesInv

\* No rule takes or yields the type that marks an error.
THEOREM ErrorTypeStaysInert == Spec => []ErrorTypeInert
BY BuilderInductive, PTL DEF BInv, TablesInv

\* An executable's structured ports have the types of their declarations.
THEOREM ProgramOwnsItsTypes == Spec => []PortsOwnTheirTypes
<1>1. BInv => PortsOwnTheirTypes
  <2>. SUFFICES ASSUME BInv, program = "executable", NEW k \in DOMAIN ports
                PROVE  Owns(ports[k])
    BY DEF PortsOwnTheirTypes, Owns
  <2>1. k \in 1..resolved
    BY DEF BInv, Resolved, TypeOK
  <2>. QED
    BY <2>1 DEF BInv, Resolved
<1>. QED
  BY <1>1, BuilderInductive, PTL

\* No registration ever replaces an entry of a table.
THEOREM RegistryOnlyGrows == Spec => NothingReplaced
<1>1. BInv /\ [Next]_vars =>
         [/\ Extends(types, types')
          /\ Extends(declKinds, declKinds')
          /\ Extends(rules, rules')]_vars
  BY BuilderTableStep, TablesGrow DEF BInv
<1>. QED
  BY <1>1, BuilderInductive, PTL DEF Spec, NothingReplaced

\* A library that could not be installed cannot be installed later: the registry
\* is sealed, or a name of the library is taken for good.
LibraryBlocked ==
    library = "error" => sealed \/ \E k \in DOMAIN Library : Taken(Library[k])

LEMMA TakenKept ==
    ASSUME TableStep, NEW e, Taken(e)
    PROVE  Taken(e)'
BY TablesGrow DEF Taken, FreeName, Extends

\* All entries are installed when none is taken, and only then.
LEMMA NoneTaken ==
    Installed = DOMAIN Library <=> \A k \in DOMAIN Library : ~Taken(Library[k])
<1>1. \A k \in DOMAIN Library : k \in 1..k /\ 1..k \subseteq DOMAIN Library
  BY LibraryAssumption
<1>. QED
  BY <1>1 DEF Installed

\* What a step does to the library's answer.
LEMMA LibraryAnswer ==
    ASSUME [Next]_vars
    PROVE  \/ UNCHANGED library /\ (sealed => sealed')
           \/ RegisterLibrary
<1>. USE DEF regVars, builderVars
<1>1. CASE UNCHANGED vars
  BY <1>1 DEF vars
<1>2. CASE HostRegisters
  <2>1. CASE RegisterEntry /\ UNCHANGED library
    BY <2>1, HostAnswer DEF RegisterCalls, Answered
  <2>. QED
    BY <1>2, <2>1 DEF HostRegisters, RegisterCalls
<1>3. ASSUME NEW s \in Script, Compile(s) PROVE UNCHANGED <<library, sealed>>
  BY <1>3 DEF Compile, Fail
<1>4. CASE ResolvePort
  BY <1>4 DEF ResolvePort, ResolvesPort, RegisterScriptType, Refuses, Accepts, Fail
<1>5. CASE FinishCompile
  BY <1>5 DEF FinishCompile, Seal
<1>. QED
  BY <1>1, <1>2, <1>3, <1>4, <1>5 DEF Next

LEMMA LibraryBlockedStep ==
    ASSUME LibraryBlocked, TableStep, [Next]_vars
    PROVE  LibraryBlocked'
<1>1. \A k \in DOMAIN Library : Taken(Library[k]) => Taken(Library[k])'
  BY TakenKept
<1>2. CASE UNCHANGED library /\ (sealed => sealed')
  BY <1>1, <1>2 DEF LibraryBlocked
<1>3. CASE RegisterLibrary
  <2>1. CASE ErrSealed
    BY <1>3, <2>1 DEF RegisterLibrary, ErrSealed, Fail, LibraryBlocked
  <2>2. CASE ~ErrSealed
    <3>1. library' = "error" => Installed # DOMAIN Library
      BY <1>3, <2>2 DEF RegisterLibrary
    <3>. QED
      BY <1>1, <3>1, NoneTaken DEF LibraryBlocked
  <2>. QED
    BY <2>1, <2>2
<1>. QED
  BY <1>2, <1>3, LibraryAnswer

\* stdlib.Register succeeds only where it never failed, and then it has added
\* every type, module and rule of the library itself.
THEOREM LibraryIsWholeOrRefused == Spec => LibraryWholeOrRefused
<1>. DEFINE Whole == \A k \in DOMAIN Library :
                       LET e == Library[k] IN
                       /\ e.name \notin DOMAIN types
                       /\ e.name \in DOMAIN types' /\ types'[e.name].shape = e.shape
                       /\ DOMAIN e.rules \subseteq DOMAIN rules'
<1>1. Init => LibraryBlocked
  BY DEF Init, DefaultRegistry, LibraryBlocked
<1>2. BInv /\ LibraryBlocked /\ [Next]_vars => LibraryBlocked'
  BY BuilderTableStep, LibraryBlockedStep DEF BInv
<1>3. ASSUME BInv, LibraryBlocked, [Next]_vars, library # "ok", library' = "ok"
      PROVE  library = "none" /\ Whole
  <2>1. RegisterLibrary
    BY <1>3, LibraryAnswer
  <2>2. ~sealed /\ Installed = DOMAIN Library /\ types' = LibraryTypes /\ rules' = LibraryRules
    BY <1>3, <2>1 DEF RegisterLibrary, ErrSealed
  <2>3. library = "none"
    BY <1>3, <2>2, NoneTaken DEF LibraryBlocked, BInv, TypeOK, RegTypeOK
  <2>4. ASSUME NEW k \in DOMAIN Library
        PROVE  /\ Library[k].name \notin DOMAIN types
               /\ Library[k].name \in DOMAIN types'
               /\ types'[Library[k].name].shape = Library[k].shape
               /\ DOMAIN Library[k].rules \subseteq DOMAIN rules'
    <3>1. Library[k].name \notin DOMAIN types
      BY <2>2, InstalledFree DEF FreeName
    <3>2. Library[k].name \in DOMAIN types' /\ DOMAIN Library[k].rules \subseteq DOMAIN rules'
      BY <2>2, LibraryTypesAre, LibraryRulesAre
    <3>3. PICK j \in Installed :
             /\ Library[j].name = Library[k].name
             /\ types'[Library[k].name] = [shape |-> Library[j].shape, fields |-> NoFields]
      BY <2>2, <3>1, <3>2, LibraryTypesAre
    <3>4. j = k
      BY <2>2, <3>3, LibraryAssumption
    <3>. QED
      BY <3>1, <3>2, <3>3, <3>4
  <2>. QED
    BY <2>3, <2>4
<1>4. BInv /\ LibraryBlocked /\ [Next]_vars =>
         [library # "ok" /\ library' = "ok" => library = "none" /\ Whole]_vars
  BY <1>3
<1>. QED
  BY <1>1, <1>2, <1>4, BuilderInductive, PTL DEF Spec, LibraryWholeOrRefused

\* The registry behind an executable is frozen and backs no other program.
THEOREM ProgramRegistryFrozen == Spec => ProgramKeepsRegistry
<1>1. BInv /\ [Next]_vars =>
         [program = "executable" => UNCHANGED tables /\ program' = program]_vars
  <2>. SUFFICES ASSUME BInv, [Next]_vars, program = "executable"
                PROVE  UNCHANGED tables /\ program' = program
    OBVIOUS
  <2>1. sealed /\ spent
    BY DEF BInv, Resolved
  <2>2. ASSUME RegisterCalls PROVE UNCHANGED tables
    <3>0. CASE RegisterLibrary
      BY <2>1, <3>0 DEF RegisterLibrary, ErrSealed, Fail, tables
    <3>. USE <2>1 DEF ErrSealed, Refuses, Accepts, Fail, tables
    <3>1. ASSUME NEW n, RegisterModule(n) PROVE UNCHANGED tables
      BY <3>1 DEF RegisterModule
    <3>2. ASSUME NEW n, NEW s, RegisterType(n, s) PROVE UNCHANGED tables
      BY <3>2 DEF RegisterType
    <3>3. ASSUME NEW w, NEW allowed, RegisterDeclKind(w, allowed)
          PROVE  UNCHANGED tables
      BY <3>3 DEF RegisterDeclKind
    <3>4. ASSUME NEW key, NEW result, NEW params, Register(key, result, params)
          PROVE  UNCHANGED tables
      BY <3>4 DEF Register
    <3>5. ASSUME \/ \E tok, l, r, result : RegisterBinary(tok, l, r, result)
                 \/ \E l, r, result : RegisterCoercion(l, r, result)
                 \/ \E tok, t, result : RegisterUnary(tok, t, result)
                 \/ \E t, m, result : RegisterMemberAccess(t, m, result)
                 \/ \E t, m, params, result : RegisterCall(t, m, params, result)
          PROVE  UNCHANGED tables
      BY <3>4, <3>5, Zenon
      DEF RegisterBinary, RegisterCoercion, RegisterUnary, RegisterMemberAccess,
          RegisterCall
    <3>. QED
      BY <2>2, <3>0, <3>1, <3>2, <3>3, <3>5 DEF RegisterCalls, RegisterEntry
  <2>3. CASE UNCHANGED vars
    BY <2>3 DEF vars, regVars, builderVars, tables
  <2>4. CASE HostRegisters
    BY <2>2, <2>4 DEF HostRegisters, builderVars
  <2>5. ASSUME NEW s \in Script, Compile(s)
        PROVE  UNCHANGED tables /\ program' = program
    BY <2>1, <2>5 DEF Compile, ErrBuilderSpent, Fail, builderVars, tables
  <2>6. ~ResolvePort /\ ~FinishCompile
    BY DEF ResolvePort, FinishCompile
  <2>. QED
    BY <2>3, <2>4, <2>5, <2>6 DEF Next
<1>. QED
  BY <1>1, BuilderInductive, PTL DEF Spec, ProgramKeepsRegistry

=============================================================================
