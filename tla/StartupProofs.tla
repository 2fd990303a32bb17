---------------------------- MODULE StartupProofs ----------------------------
(***************************************************************************)
(* What a process that serves can be relied on for, whatever its authors    *)
(* did to the files while it read them: proved for any policies, facts,     *)
(* messages, languages and versions, and any number of edits.               *)
(***************************************************************************)
EXTENDS Startup, TLAPS, FiniteSetTheorems

\* How far a process is that has the directory behind it.
Past(directory) ==
    CASE directory = "policies"         -> {"warming", "responses", "outcome_messages", "serving"}
      [] directory = "responses"        -> {"outcome_messages", "serving"}
      [] directory = "outcome_messages" -> {"serving"}

\* Inductive: what a process has behind it was judged, and is what it was.
StartupInvariant ==
    /\ process \in Directories \cup {"down", "warming", "serving", "refused"}
    /\ process # "down" => settings \in Environments
    /\ DOMAIN loaded = Directories
    /\ \A d \in Directories : process \in Past(d) => Holds(d, loaded[d])
    /\ process \notin {"down", "refused"} => Admissible(settings)

-----------------------------------------------------------------------------
\* A set no two members of which are apart has one member at most.
LEMMA AtMostOne ==
    ASSUME NEW S, \A x, y \in S : x = y
    PROVE  Cardinality(S) <= 1
<1>1. CASE S = {}
    BY <1>1, FS_EmptySet
<1>2. CASE \E x : S = {x}
    BY <1>2, FS_Singleton
<1>3. S = {} \/ \E x : S = {x}
    <2>1. SUFFICES ASSUME NEW x \in S PROVE S = {x}
        OBVIOUS
    <2>2. QED BY <2>1
<1>4. QED BY <1>1, <1>2, <1>3

LEMMA StartupInvariantInitially == StartupInit => StartupInvariant
BY DEF StartupInit, StartupInvariant, NothingLoaded, Directories, Past

\* The step that judges a directory is the one that puts it behind.
LEMMA JudgeKeeps == StartupInvariant /\ Judge => StartupInvariant'
<1> SUFFICES ASSUME StartupInvariant, Judge PROVE StartupInvariant'
    OBVIOUS
<1> USE DEF Judge, StartupInvariant
<1>1. CASE ~Holds(process, taken)
    BY <1>1 DEF Refuses, Directories, Past
<1>2. CASE Holds(process, taken)
    <2>1. /\ loaded' = [loaded EXCEPT ![process] = taken]
          /\ process \in Directories
          /\ settings' = settings
        BY <1>2
    <2>2. DOMAIN loaded' = Directories
        BY <2>1
    <2>3. \A d \in Directories : loaded'[d] = IF d = process THEN taken ELSE loaded[d]
        BY <2>1
    <2>4. CASE process = "policies"
        <3>1. process' = "warming"
            BY <1>2, <2>4
        <3>2. \A d \in Directories : process' \in Past(d) => d = "policies"
            BY <3>1 DEF Past, Directories
        <3>3. Holds("policies", loaded'["policies"])
            BY <1>2, <2>3, <2>4 DEF Directories
        <3>4. \A d \in Directories : process' \in Past(d) => Holds(d, loaded'[d])
            BY <3>2, <3>3
        <3>5. QED BY <2>1, <2>2, <2>4, <3>1, <3>4 DEF Holds, Directories, Admissible,
                     PoliciesHold, ResponsesHold, MessagesHold
    <2>5. CASE process = "responses"
        <3>1. process' = "outcome_messages"
            BY <1>2, <2>5 DEF Reads
        <3>2. \A d \in Directories : process' \in Past(d) => d \in {"policies", "responses"}
            BY <3>1 DEF Past, Directories
        <3>3. Holds("responses", loaded'["responses"])
            BY <1>2, <2>3, <2>5 DEF Directories
        <3>4. Holds("policies", loaded["policies"]) /\ loaded'["policies"] = loaded["policies"]
            BY <2>3, <2>5 DEF Past, Directories
        <3>5. \A d \in Directories : process' \in Past(d) => Holds(d, loaded'[d])
            BY <3>2, <3>3, <3>4
        <3>6. QED BY <2>1, <2>2, <2>5, <3>1, <3>5 DEF Directories
    <2>6. CASE process = "outcome_messages"
        <3>1. process' = "serving"
            BY <1>2, <2>6
        <3>2. Holds("outcome_messages", loaded'["outcome_messages"])
            BY <1>2, <2>3, <2>6 DEF Directories
        <3>3. \A d \in Directories \ {"outcome_messages"} :
                  Holds(d, loaded[d]) /\ loaded'[d] = loaded[d]
            BY <2>3, <2>6 DEF Past, Directories
        <3>4. \A d \in Directories : Holds(d, loaded'[d])
            BY <3>2, <3>3
        <3>5. QED BY <2>1, <2>2, <2>6, <3>1, <3>4 DEF Directories
    <2>7. QED BY <2>1, <2>4, <2>5, <2>6 DEF Directories
<1>3. QED BY <1>1, <1>2

LEMMA StartupInvariantKept ==
    StartupInvariant /\ [StartupNext]_startupVars => StartupInvariant'
<1> SUFFICES ASSUME StartupInvariant, [StartupNext]_startupVars PROVE StartupInvariant'
    OBVIOUS
<1>1. CASE UNCHANGED startupVars
    BY <1>1 DEF startupVars, StartupInvariant
<1>2. ASSUME NEW n \in Names, NEW content \in Contents(n), Edit(n, content)
      PROVE  StartupInvariant'
    BY <1>2 DEF Edit, StartupInvariant
<1>3. CASE Start
    BY <1>3 DEF Start, Reads, Refuses, StartupInvariant, Directories, Past
<1>4. CASE ReadNext
    BY <1>4 DEF ReadNext, Refuses, StartupInvariant, Directories, Past
<1>5. CASE Judge
    BY <1>5, JudgeKeeps
<1>6. CASE Warm
    BY <1>6 DEF Warm, Reads, Refuses, StartupInvariant, Directories, Past
<1>7. CASE Stop
    BY <1>7 DEF Stop, StartupInvariant, NothingLoaded, Directories, Past
<1>8. QED BY <1>1, <1>2, <1>3, <1>4, <1>5, <1>6, <1>7 DEF StartupNext

\* Whatever a process has read and trusts was judged as a whole, and it has
\* settings that hold together.
THEOREM StartupJudges == StartupSpec => []StartupInvariant
BY StartupInvariantInitially, StartupInvariantKept, PTL DEF StartupSpec

\* All a process serves of a policy claims the same, whoever was editing the
\* files while they were read.
THEOREM StartupServesOneRule == StartupSpec => []OneRuleInForce
<1>1. StartupInvariant => OneRuleInForce
    <2> SUFFICES ASSUME StartupInvariant, process = "serving",
                        NEW f \in Approved(loaded["policies"]),
                        NEW g \in Approved(loaded["policies"]),
                        f.declares.what = g.declares.what
                 PROVE  f.claims = g.claims
        BY DEF OneRuleInForce
    <2>1. PoliciesHold(loaded["policies"])
        BY DEF StartupInvariant, Past, Directories, Holds
    <2>2. f.declares.version = g.declares.version
        BY <2>1 DEF PoliciesHold, VersionsAgree
    <2>3. QED BY <2>1, <2>2 DEF PoliciesHold, ClaimsAgree, Approved
<1>2. QED BY <1>1, StartupJudges, PTL

\* A process that serves has windows that make a scale, at most one sentence
\* for a fact and exactly one for everything a customer may have to be told,
\* in every language.
THEOREM StartupEquips == StartupSpec => []AgentIsEquipped
<1>1. StartupInvariant => AgentIsEquipped
    <2> SUFFICES ASSUME StartupInvariant, process = "serving" PROVE AgentIsEquipped
        BY DEF AgentIsEquipped
    <2>1. /\ ResponsesHold(loaded["responses"])
          /\ MessagesHold(loaded["outcome_messages"])
        BY DEF StartupInvariant, Past, Directories, Holds
    <2>2. /\ settings.ttl <= settings.readable
          /\ ~(settings.production /\ settings.demo)
        BY EnvironmentAssumption
           DEF StartupInvariant, Environment, Admissible, WindowsMakeAScale, ProductionIsSafe
    <2>3. ASSUME NEW read, NEW said, NoneCompete(read)
          PROVE  Cardinality({f \in Approved(read) : Sayable(f) = said}) <= 1
        <3>1. \A f, g \in {h \in Approved(read) : Sayable(h) = said} : f = g
            BY <2>3 DEF NoneCompete
        <3>2. QED BY <3>1, AtMostOne
    <2>4. ASSUME NEW key \in MessageKeys, NEW l \in Locales
          PROVE  Cardinality({f \in Approved(loaded["outcome_messages"]) :
                                  Sayable(f) = <<key, l>>}) = 1
        <3>1. NoneCompete(loaded["outcome_messages"])
            BY <2>1 DEF MessagesHold
        <3>2. PICK f \in Approved(loaded["outcome_messages"]) : Sayable(f) = <<key, l>>
            BY <2>1, <2>4 DEF MessagesHold
        <3>3. {g \in Approved(loaded["outcome_messages"]) : Sayable(g) = <<key, l>>} = {f}
            BY <3>1, <3>2 DEF NoneCompete
        <3>4. QED BY <3>3, FS_Singleton
    <2>5. \A fact \in Facts, l \in Locales :
              Cardinality({f \in Approved(loaded["responses"]) : Sayable(f) = <<fact, l>>}) <= 1
        BY <2>1, <2>3 DEF ResponsesHold
    <2>6. QED BY <2>2, <2>4, <2>5 DEF AgentIsEquipped
<1>2. QED BY <1>1, StartupJudges, PTL

-----------------------------------------------------------------------------
(* What is in order is what holds *)

LEMMA NamesAreFinite == IsFiniteSet(Names)
<1>1. Sorted \in [1..Len(Sorted) -> Names] /\ Len(Sorted) \in Nat
    BY StartupAssumption
<1>2. Sorted \in Surjection(1..Len(Sorted), Names)
    BY <1>1, StartupAssumption DEF ToSet, Surjection
<1>3. IsFiniteSet(1..Len(Sorted))
    BY <1>1, FS_Interval
<1>4. QED BY <1>2, <1>3, FS_Surjection

LEMMA ImagesAreFinite ==
    ASSUME NEW S, IsFiniteSet(S), NEW f, DOMAIN f = S
    PROVE  IsFiniteSet({f[x] : x \in S})
<1> DEFINE T == {f[x] : x \in S}
           g == [x \in S |-> f[x]]
<1>1. g \in Surjection(S, T)
    BY DEF Surjection
<1>2. QED BY <1>1, FS_Surjection

\* Counting to one is comparing in pairs.
LEMMA OneByPairs ==
    ASSUME NEW S, IsFiniteSet(S)
    PROVE  /\ Cardinality(S) <= 1 <=> \A x, y \in S : x = y
           /\ Cardinality(S) = 1 <=> (\A x, y \in S : x = y) /\ S # {}
<1>1. Cardinality(S) \in Nat /\ (Cardinality(S) = 0 <=> S = {})
    BY FS_CardinalityType, FS_EmptySet
<1>2. Cardinality(S) = 1 <=> \E x : S = {x}
    BY FS_Singleton
<1>3. (\A x, y \in S : x = y) => Cardinality(S) <= 1
    BY AtMostOne
<1>4. QED BY <1>1, <1>2, <1>3

\* What a directory holds, and whether every file in it is what its name says.
OnDisk(d)  == {files[n] : n \in Listing(d)}
AsNamed(d) == \A n \in Listing(d) : files[n].state = "written" /\ files[n].declares = n

InForce(d, what) == {n \in Listing(d) : n.what = what /\ files[n].approved}

\* InOrder, in pairs and by directory.
PoliciesInOrder ==
    /\ \A p \in Policies : \A n, m \in InForce("policies", p) : n.version = m.version
    /\ \A p \in Policies, v \in Versions : \A n, m \in Listing("policies") :
          n.what = p /\ m.what = p /\ n.version = v /\ m.version = v
              => files[n].claims = files[m].claims
ResponsesInOrder ==
    \A fact \in Facts, l \in Locales : \A n, m \in InForce("responses", fact) :
        n.locale = l /\ m.locale = l => n = m
MessagesInOrder ==
    \A key \in MessageKeys, l \in Locales :
        /\ \A n, m \in InForce("outcome_messages", key) : n.locale = l /\ m.locale = l => n = m
        /\ \E n \in InForce("outcome_messages", key) : n.locale = l

LEMMA OrderByDirectory ==
    InOrder <=> /\ \A d \in Directories : AsNamed(d) /\ Listing(d) # {}
                /\ PoliciesInOrder /\ ResponsesInOrder /\ MessagesInOrder
<1> DEFINE written == {n \in Names : files[n].state # "absent"}
           inForce(d, what) == {n \in written : /\ n.directory = d /\ n.what = what
                                                /\ files[n].approved}
           versions(p) == {n.version : n \in inForce("policies", p)}
           ofVersion(p, v) == {m \in written : /\ m.directory = "policies"
                                               /\ m.what = p /\ m.version = v}
           claims(p, v) == {files[n].claims : n \in ofVersion(p, v)}
           said(d, what, l) == {n \in inForce(d, what) : n.locale = l}
<1>1. InOrder <=>
        /\ \A n \in written : files[n].state = "written" /\ files[n].declares = n
        /\ \A d \in Directories : \E n \in written : n.directory = d
        /\ \A p \in Policies : /\ Cardinality(versions(p)) <= 1
                               /\ \A v \in Versions : Cardinality(claims(p, v)) <= 1
        /\ \A fact \in Facts, l \in Locales : Cardinality(said("responses", fact, l)) <= 1
        /\ \A key \in MessageKeys, l \in Locales :
              Cardinality(said("outcome_messages", key, l)) = 1
    BY DEF InOrder
<1>2. \A d, what : inForce(d, what) = InForce(d, what)
    BY DEF InForce, Listing
<1>3. \A p, v : ofVersion(p, v) = {n \in Listing("policies") : n.what = p /\ n.version = v}
    BY DEF Listing
<1>4. \A n \in written : n.directory \in Directories
    BY DEF Names
<1>5. (\A n \in written : files[n].state = "written" /\ files[n].declares = n)
        <=> \A d \in Directories : AsNamed(d)
    BY <1>4 DEF AsNamed, Listing
<1>6. (\A d \in Directories : \E n \in written : n.directory = d)
        <=> \A d \in Directories : Listing(d) # {}
    BY DEF Listing
<1>7. ASSUME NEW p PROVE Cardinality(versions(p)) <= 1
                            <=> \A n, m \in InForce("policies", p) : n.version = m.version
    <2> DEFINE f == [n \in inForce("policies", p) |-> n.version]
    <2>1. IsFiniteSet(inForce("policies", p))
        BY NamesAreFinite, FS_Subset
    <2>2. DOMAIN f = inForce("policies", p) /\ {f[n] : n \in inForce("policies", p)} = versions(p)
        OBVIOUS
    <2> HIDE DEF f, inForce, versions
    <2>3. IsFiniteSet(versions(p))
        BY <2>1, <2>2, ImagesAreFinite
    <2> USE DEF versions
    <2>4. Cardinality(versions(p)) <= 1 <=> \A x, y \in versions(p) : x = y
        BY <2>3, OneByPairs
    <2>5. QED BY <1>2, <2>4
<1>8. ASSUME NEW p, NEW v
      PROVE  Cardinality(claims(p, v)) <= 1
                <=> \A n, m \in ofVersion(p, v) : files[n].claims = files[m].claims
    <2> DEFINE f == [n \in ofVersion(p, v) |-> files[n].claims]
    <2>1. IsFiniteSet(ofVersion(p, v))
        BY NamesAreFinite, FS_Subset
    <2>2. DOMAIN f = ofVersion(p, v) /\ {f[n] : n \in ofVersion(p, v)} = claims(p, v)
        OBVIOUS
    <2> HIDE DEF f, ofVersion, claims
    <2>3. IsFiniteSet(claims(p, v))
        BY <2>1, <2>2, ImagesAreFinite
    <2> USE DEF claims
    <2>4. Cardinality(claims(p, v)) <= 1 <=> \A x, y \in claims(p, v) : x = y
        BY <2>3, OneByPairs
    <2>5. QED BY <2>4
<1>9. ASSUME NEW d, NEW what, NEW l
      PROVE  LET alike == \A n, m \in InForce(d, what) : n.locale = l /\ m.locale = l => n = m
                 some  == \E n \in InForce(d, what) : n.locale = l
             IN  /\ Cardinality(said(d, what, l)) <= 1 <=> alike
                 /\ Cardinality(said(d, what, l)) = 1 <=> alike /\ some
    <2>1. IsFiniteSet(said(d, what, l))
        BY NamesAreFinite, FS_Subset
    <2>2. /\ Cardinality(said(d, what, l)) <= 1 <=> \A n, m \in said(d, what, l) : n = m
          /\ Cardinality(said(d, what, l)) = 1
                <=> (\A n, m \in said(d, what, l) : n = m) /\ said(d, what, l) # {}
        BY <2>1, OneByPairs
    <2>3. QED BY <1>2, <2>2
<1> HIDE DEF written, versions, claims, said
<1>10. PoliciesInOrder <=> \A p \in Policies :
            /\ Cardinality(versions(p)) <= 1
            /\ \A v \in Versions : Cardinality(claims(p, v)) <= 1
    <2>1. \A p, v : Cardinality(claims(p, v)) <= 1
            <=> \A n, m \in Listing("policies") :
                    n.what = p /\ m.what = p /\ n.version = v /\ m.version = v
                        => files[n].claims = files[m].claims
        <3> HIDE DEF ofVersion
        <3>1. QED BY <1>3, <1>8
    <2>2. QED BY <1>7, <2>1 DEF PoliciesInOrder
<1>11. ResponsesInOrder <=>
            \A fact \in Facts, l \in Locales : Cardinality(said("responses", fact, l)) <= 1
    BY <1>9 DEF ResponsesInOrder
<1>12. MessagesInOrder <=>
            \A key \in MessageKeys, l \in Locales :
                Cardinality(said("outcome_messages", key, l)) = 1
    BY <1>9 DEF MessagesInOrder
<1>13. QED BY <1>1, <1>5, <1>6, <1>10, <1>11, <1>12

\* A file's name is its directory, what it is about, its language and version.
LEMMA NamesAreTold ==
    ASSUME NEW d \in Directories, NEW n \in Listing(d), NEW m \in Listing(d)
    PROVE  /\ n.what \in About[d] /\ n.locale \in Locales /\ n.version \in Versions
           /\ n.what = m.what /\ n.locale = m.locale /\ n.version = m.version => n = m
BY DEF Listing, Names

\* What a file in force can be quoted for is what its name says.
LEMMA InForceSays ==
    ASSUME NEW d \in Directories, AsNamed(d)
    PROVE  /\ \A n \in Listing(d) : /\ files[n] \in OnDisk(d) /\ files[n].declares = n
                                    /\ Sayable(files[n]) = <<n.what, n.locale>>
                                    /\ files[n].approved <=> n \in InForce(d, n.what)
           /\ \A f \in OnDisk(d) : \E n \in Listing(d) : f = files[n]
           /\ \A what : \A n \in InForce(d, what) : n \in Listing(d) /\ n.what = what
BY DEF AsNamed, OnDisk, InForce, Sayable

\* No two sentences compete exactly where no two names do.
LEMMA CompetingIsByName ==
    ASSUME NEW d \in Directories, AsNamed(d)
    PROVE  NoneCompete(OnDisk(d)) <=>
                \A what \in About[d], l \in Locales : \A n, m \in InForce(d, what) :
                    n.locale = l /\ m.locale = l => n = m
<1>1. ASSUME NoneCompete(OnDisk(d)), NEW what \in About[d], NEW l \in Locales,
             NEW n \in InForce(d, what), NEW m \in InForce(d, what), n.locale = l, m.locale = l
      PROVE  n = m
    <2>1. /\ n \in Listing(d) /\ m \in Listing(d) /\ n.what = what /\ m.what = what
          /\ files[n].approved /\ files[m].approved
        BY <1>1 DEF InForce
    <2>2. /\ files[n] \in Approved(OnDisk(d)) /\ files[m] \in Approved(OnDisk(d))
          /\ Sayable(files[n]) = Sayable(files[m])
          /\ files[n].declares = n /\ files[m].declares = m
        BY <1>1, <2>1, InForceSays DEF Approved
    <2>3. files[n] = files[m]
        BY <1>1, <2>2 DEF NoneCompete
    <2>4. QED BY <2>2, <2>3
<1>2. ASSUME \A what \in About[d], l \in Locales : \A n, m \in InForce(d, what) :
                n.locale = l /\ m.locale = l => n = m,
             NEW f \in Approved(OnDisk(d)), NEW g \in Approved(OnDisk(d)),
             Sayable(f) = Sayable(g)
      PROVE  f = g
    <2>1. PICK n \in Listing(d) : f = files[n]
        BY <1>2, InForceSays DEF Approved
    <2>2. PICK m \in Listing(d) : g = files[m]
        BY <1>2, InForceSays DEF Approved
    <2>3. /\ n.what = m.what /\ n.locale = m.locale
          /\ n \in InForce(d, n.what) /\ m \in InForce(d, n.what)
        BY <1>2, <2>1, <2>2, InForceSays DEF Approved
    <2>4. n.what \in About[d] /\ n.locale \in Locales
        BY NamesAreTold
    <2>5. n = m
        BY <1>2, <2>3, <2>4
    <2>6. QED BY <2>1, <2>2, <2>5
<1>3. QED BY <1>1, <1>2 DEF NoneCompete

LEMMA PoliciesHoldInOrder ==
    ASSUME AsNamed("policies")
    PROVE  PoliciesHold(OnDisk("policies")) <=> Listing("policies") # {} /\ PoliciesInOrder
<1> DEFINE d == "policies"
           read == OnDisk(d)
<1>1. d \in Directories /\ About[d] = Policies
    BY DEF Directories, About
<1>2. read # {} <=> Listing(d) # {}
    BY DEF OnDisk
<1>3. NoneRepeated(read)
    <2> SUFFICES ASSUME NEW n \in Listing(d), NEW m \in Listing(d),
                        Identity(files[n]) = Identity(files[m])
                 PROVE  files[n] = files[m]
        BY <1>1, InForceSays DEF NoneRepeated
    <2>1. n.what = m.what /\ n.locale = m.locale /\ n.version = m.version
        BY <1>1, InForceSays DEF Identity
    <2>2. QED BY <1>1, <2>1, NamesAreTold
<1>4. VersionsAgree(read) <=>
        \A p \in Policies : \A n, m \in InForce(d, p) : n.version = m.version
    <2>1. ASSUME VersionsAgree(read), NEW p \in Policies, NEW n \in InForce(d, p),
                 NEW m \in InForce(d, p)
          PROVE  n.version = m.version
        <3>1. /\ files[n] \in Approved(read) /\ files[m] \in Approved(read)
              /\ files[n].declares = n /\ files[m].declares = m /\ n.what = m.what
            BY <1>1, InForceSays DEF Approved, InForce
        <3>2. QED BY <2>1, <3>1 DEF VersionsAgree
    <2>2. ASSUME \A p \in Policies : \A n, m \in InForce(d, p) : n.version = m.version,
                 NEW f \in Approved(read), NEW g \in Approved(read),
                 f.declares.what = g.declares.what
          PROVE  f.declares.version = g.declares.version
        <3>1. PICK n \in Listing(d) : f = files[n]
            BY <1>1, <2>2, InForceSays DEF Approved
        <3>2. PICK m \in Listing(d) : g = files[m]
            BY <1>1, <2>2, InForceSays DEF Approved
        <3>3. /\ f.declares = n /\ g.declares = m
              /\ n \in InForce(d, n.what) /\ m \in InForce(d, n.what)
            BY <1>1, <2>2, <3>1, <3>2, InForceSays DEF Approved
        <3>4. n.what \in Policies
            BY <1>1, NamesAreTold
        <3>5. QED BY <2>2, <3>3, <3>4
    <2>3. QED BY <2>1, <2>2 DEF VersionsAgree
<1>5. ClaimsAgree(read) <=>
        \A p \in Policies, v \in Versions : \A n, m \in Listing(d) :
            n.what = p /\ m.what = p /\ n.version = v /\ m.version = v
                => files[n].claims = files[m].claims
    <2>1. ClaimsAgree(read) <=>
            \A n, m \in Listing(d) : n.what = m.what /\ n.version = m.version
                => files[n].claims = files[m].claims
        BY <1>1, InForceSays DEF ClaimsAgree
    <2>2. \A n \in Listing(d) : n.what \in Policies /\ n.version \in Versions
        BY <1>1, NamesAreTold
    <2>3. QED BY <2>1, <2>2
<1>6. VersionsAgree(read) => NoneCompete(read)
    <2> SUFFICES ASSUME VersionsAgree(read), NEW p \in Policies, NEW n \in InForce(d, p),
                        NEW m \in InForce(d, p), n.locale = m.locale
                 PROVE  n = m
        BY <1>1, CompetingIsByName
    <2>1. n.version = m.version
        BY <1>4
    <2>2. n \in Listing(d) /\ m \in Listing(d) /\ n.what = m.what
        BY DEF InForce
    <2>3. QED BY <1>1, <2>1, <2>2, NamesAreTold
<1>7. QED BY <1>2, <1>3, <1>4, <1>5, <1>6 DEF PoliciesHold, PoliciesInOrder

LEMMA ResponsesHoldInOrder ==
    ASSUME AsNamed("responses")
    PROVE  ResponsesHold(OnDisk("responses")) <=> Listing("responses") # {} /\ ResponsesInOrder
<1>1. "responses" \in Directories /\ About["responses"] = Facts
    BY DEF Directories, About
<1>2. OnDisk("responses") # {} <=> Listing("responses") # {}
    BY DEF OnDisk
<1>3. NoneCompete(OnDisk("responses")) <=> ResponsesInOrder
    BY <1>1, CompetingIsByName DEF ResponsesInOrder
<1>4. QED BY <1>2, <1>3 DEF ResponsesHold

LEMMA MessagesHoldInOrder ==
    ASSUME AsNamed("outcome_messages")
    PROVE  MessagesHold(OnDisk("outcome_messages"))
                <=> Listing("outcome_messages") # {} /\ MessagesInOrder
<1> DEFINE d == "outcome_messages"
           read == OnDisk(d)
           sayable == {Sayable(f) : f \in Approved(read)}
<1>1. d \in Directories /\ About[d] = MessageKeys
    BY DEF Directories, About
<1>2. read # {} <=> Listing(d) # {}
    BY DEF OnDisk
<1>3. NoneCompete(read) <=>
        \A key \in MessageKeys, l \in Locales : \A n, m \in InForce(d, key) :
            n.locale = l /\ m.locale = l => n = m
    BY <1>1, CompetingIsByName
<1>4. \A said : said \in sayable
        <=> \E n \in Listing(d) : n \in InForce(d, n.what) /\ said = <<n.what, n.locale>>
    BY <1>1, InForceSays DEF Approved
<1>5. sayable \subseteq MessageKeys \X Locales
    BY <1>1, <1>4, NamesAreTold
<1>6. \A key \in MessageKeys, l \in Locales :
        <<key, l>> \in sayable <=> \E n \in InForce(d, key) : n.locale = l
    <2> SUFFICES ASSUME NEW key \in MessageKeys, NEW l \in Locales
                 PROVE  <<key, l>> \in sayable <=> \E n \in InForce(d, key) : n.locale = l
        OBVIOUS
    <2> HIDE DEF sayable
    <2>1. ASSUME <<key, l>> \in sayable PROVE \E n \in InForce(d, key) : n.locale = l
        <3>1. PICK n \in Listing(d) : n \in InForce(d, n.what) /\ <<key, l>> = <<n.what, n.locale>>
            BY <1>4, <2>1
        <3>2. QED BY <3>1
    <2>2. ASSUME NEW n \in InForce(d, key), n.locale = l PROVE <<key, l>> \in sayable
        <3>1. n \in Listing(d) /\ n.what = key
            BY DEF InForce
        <3>2. QED BY <1>4, <2>2, <3>1
    <2>3. QED BY <2>1, <2>2
<1>7. sayable = MessageKeys \X Locales <=>
        \A key \in MessageKeys, l \in Locales : \E n \in InForce(d, key) : n.locale = l
    <2> HIDE DEF sayable
    <2>1. (\A key \in MessageKeys, l \in Locales : <<key, l>> \in sayable)
            <=> MessageKeys \X Locales \subseteq sayable
        OBVIOUS
    <2>2. QED BY <1>5, <1>6, <2>1
<1>8. MessagesHold(read) <=> read # {} /\ NoneCompete(read) /\ sayable = MessageKeys \X Locales
    BY DEF MessagesHold
<1>9. QED BY <1>2, <1>3, <1>7, <1>8 DEF MessagesInOrder

\* What is on disk is in order exactly where every file is what its name says,
\* and each directory, read as a whole, is one that would be trusted.
LEMMA OrderIsHolding ==
    InOrder <=> \A d \in Directories : AsNamed(d) /\ Holds(d, OnDisk(d))
<1>1. Directories = {"policies", "responses", "outcome_messages"}
    BY DEF Directories
<1>2. \A read : /\ Holds("policies", read) = PoliciesHold(read)
                /\ Holds("responses", read) = ResponsesHold(read)
                /\ Holds("outcome_messages", read) = MessagesHold(read)
    BY DEF Holds
<1>3. QED BY <1>1, <1>2, OrderByDirectory, PoliciesHoldInOrder, ResponsesHoldInOrder,
             MessagesHoldInOrder

-----------------------------------------------------------------------------
(* A process nobody disturbs *)

\* Inductive: while nobody edits, what was read of a directory is what is on
\* disk of it but for the names still unread, every name read is true, and
\* what was refused had a cause.
Faithful ==
    /\ process \in Directories =>
          LET read == Listing(process) \ unread
          IN  /\ unread \subseteq Listing(process)
              /\ taken = {files[n] : n \in read}
              /\ \A n \in read : files[n].state = "written" /\ files[n].declares = n
    /\ \A d \in Directories : process \in Past(d) => AsNamed(d) /\ loaded[d] = OnDisk(d)
    /\ process = "refused" =>
          ~InOrder \/ ~Admissible(settings) \/ settings.embedder = "misconfigured"

FaithfulUndisturbed == ~disturbed => Faithful

\* A process that opens a directory has read nothing of it, and what it read
\* before is still what is on disk.
LEMMA OpeningIsFaithful ==
    ASSUME NEW d \in Directories, Reads(d), files' = files,
           \A b \in Directories : d \in Past(b) => AsNamed(b) /\ loaded'[b] = OnDisk(b)
    PROVE  Faithful'
<1>1. process' = d /\ unread' = Listing(d) /\ taken' = {}
    BY DEF Reads
<1>2. Listing(d)' = Listing(d)
    BY DEF Listing
<1>3. \A b \in Directories : AsNamed(b)' = AsNamed(b) /\ OnDisk(b)' = OnDisk(b)
    BY DEF AsNamed, OnDisk, Listing
<1>4. process' # "refused"
    BY <1>1 DEF Directories
<1>5. Listing(process)' = Listing(d)
    BY <1>1, <1>2 DEF Listing
<1>6. QED BY <1>1, <1>3, <1>4, <1>5 DEF Faithful

\* Refusing is faithful where there was a cause.
LEMMA RefusingIsFaithful ==
    ASSUME Refuses, files' = files,
           ~InOrder \/ ~Admissible(settings') \/ settings'.embedder = "misconfigured"
    PROVE  Faithful'
<1>1. process' = "refused"
    BY DEF Refuses
<1>2. InOrder' = InOrder
    BY DEF InOrder
<1>3. Admissible(settings)' = Admissible(settings')
    BY DEF Admissible, DatabaseIsNamed, WindowsMakeAScale, ProductionIsSafe
<1>4. \A d \in Directories : "refused" \notin Past(d)
    BY DEF Directories, Past
<1>5. QED BY <1>1, <1>2, <1>3, <1>4 DEF Faithful, Directories

LEMMA ReadingIsFaithful ==
    ASSUME Faithful, ReadNext
    PROVE  Faithful'
<1>1. process \in Directories /\ UNCHANGED <<files, settings, loaded>>
    BY DEF ReadNext
<1>2. PICK name \in unread :
          IF files[name].state = "written" /\ files[name].declares = name
          THEN /\ taken' = taken \cup {files[name]}
               /\ unread' = unread \ {name}
               /\ UNCHANGED process
          ELSE Refuses
    BY DEF ReadNext
<1> DEFINE read == Listing(process) \ unread
           true(n) == files[n].state = "written" /\ files[n].declares = n
<1>3. /\ unread \subseteq Listing(process) /\ name \in Listing(process)
      /\ taken = {files[n] : n \in read}
      /\ \A n \in read : true(n)
    BY <1>1, <1>2 DEF Faithful
<1>4. CASE ~true(name)
    <2>1. ~AsNamed(process)
        BY <1>3, <1>4 DEF AsNamed
    <2>2. ~InOrder
        BY <1>1, <2>1, OrderIsHolding
    <2>3. QED BY <1>1, <1>2, <1>4, <2>2, RefusingIsFaithful
<1>5. CASE true(name)
    <2>1. taken' = taken \cup {files[name]} /\ unread' = unread \ {name} /\ process' = process
        BY <1>2, <1>5
    <2>2. \A d : Listing(d)' = Listing(d)
        BY <1>1 DEF Listing
    <2>3. \A d \in Directories : AsNamed(d)' = AsNamed(d) /\ OnDisk(d)' = OnDisk(d)
        BY <1>1 DEF AsNamed, OnDisk, Listing
    <2>4. Listing(process)' = Listing(process)
        BY <1>1, <2>1 DEF Listing
    <2>5. Listing(process) \ unread' = read \cup {name}
        BY <1>3, <2>1
    <2>6. /\ taken' = {files[n] : n \in read \cup {name}}
          /\ \A n \in read \cup {name} : true(n)
        BY <1>3, <1>5, <2>1
    <2>7. process # "refused"
        BY <1>1 DEF Directories
    <2> HIDE DEF read
    <2>8. LET now == Listing(process)' \ unread'
          IN  /\ unread' \subseteq Listing(process)'
              /\ taken' = {files'[n] : n \in now}
              /\ \A n \in now : files'[n].state = "written" /\ files'[n].declares = n
        BY <1>1, <1>3, <2>1, <2>4, <2>5, <2>6
    <2>9. \A d \in Directories : process' \in Past(d) => AsNamed(d)' /\ loaded'[d] = OnDisk(d)'
        BY <1>1, <2>1, <2>3 DEF Faithful
    <2>10. QED BY <2>1, <2>7, <2>8, <2>9 DEF Faithful
<1>6. QED BY <1>4, <1>5

\* What was read to the end is all there is on disk, and all of it true.
LEMMA ReadToTheEnd ==
    ASSUME Faithful, process \in Directories, unread = {}
    PROVE  AsNamed(process) /\ taken = OnDisk(process)
BY DEF Faithful, AsNamed, OnDisk

LEMMA JudgingIsFaithful ==
    ASSUME StartupInvariant, Faithful, Judge
    PROVE  Faithful'
<1>1. /\ process \in Directories /\ AsNamed(process) /\ taken = OnDisk(process)
      /\ UNCHANGED <<files, settings>>
    BY ReadToTheEnd DEF Judge
<1>2. CASE ~Holds(process, taken)
    <2>1. ~InOrder
        BY <1>1, <1>2, OrderIsHolding
    <2>2. Refuses
        BY <1>2 DEF Judge
    <2>3. QED BY <1>1, <2>1, <2>2, RefusingIsFaithful
<1>3. CASE Holds(process, taken)
    <2>1. \A d \in Directories : loaded'[d] = IF d = process THEN taken ELSE loaded[d]
        BY <1>1, <1>3 DEF Judge, StartupInvariant
    <2>2. \A d \in Directories : AsNamed(d)' = AsNamed(d) /\ OnDisk(d)' = OnDisk(d)
        BY <1>1 DEF AsNamed, OnDisk, Listing
    <2>3. \A d \in Directories : d = process \/ process \in Past(d)
                => AsNamed(d) /\ loaded'[d] = OnDisk(d)
        BY <1>1, <2>1 DEF Faithful
    <2>4. CASE process = "policies"
        <3>1. process' = "warming"
            BY <1>3, <2>4 DEF Judge
        <3>2. \A d \in Directories : process' \in Past(d) => d = process
            BY <2>4, <3>1 DEF Past, Directories
        <3>3. QED BY <2>2, <2>3, <3>1, <3>2 DEF Faithful, Directories
    <2>5. CASE process = "responses"
        <3>1. Reads("outcome_messages")
            BY <1>3, <2>5 DEF Judge
        <3>2. \A d \in Directories : "outcome_messages" \in Past(d) => d = process \/ process \in Past(d)
            BY <2>5 DEF Past, Directories
        <3>3. "outcome_messages" \in Directories
            BY DEF Directories
        <3>4. QED BY <1>1, <2>3, <3>1, <3>2, <3>3, OpeningIsFaithful
    <2>6. CASE process = "outcome_messages"
        <3>1. process' = "serving"
            BY <1>3, <2>6 DEF Judge
        <3>2. \A d \in Directories : d = process \/ process \in Past(d)
            BY <2>6 DEF Past, Directories
        <3>3. QED BY <2>2, <2>3, <3>1, <3>2 DEF Faithful, Directories
    <2>7. QED BY <1>1, <2>4, <2>5, <2>6 DEF Directories
<1>4. QED BY <1>2, <1>3

LEMMA WarmingIsFaithful ==
    ASSUME Faithful, Warm
    PROVE  Faithful'
<1>1. process = "warming" /\ UNCHANGED <<files, settings, loaded>>
    BY DEF Warm
<1>2. CASE Refuses /\ settings.embedder = "misconfigured"
    BY <1>1, <1>2, RefusingIsFaithful
<1>3. CASE Reads("responses")
    <2>1. \A d \in Directories : "responses" \in Past(d) => "warming" \in Past(d)
        BY DEF Past, Directories
    <2>2. "responses" \in Directories
        BY DEF Directories
    <2>3. QED BY <1>1, <1>3, <2>1, <2>2, OpeningIsFaithful DEF Faithful
<1>4. QED BY <1>2, <1>3 DEF Warm

LEMMA StartingIsFaithful ==
    ASSUME Start
    PROVE  Faithful'
<1>1. files' = files
    BY DEF Start
<1>2. CASE Reads("policies")
    <2>1. "policies" \in Directories /\ \A d \in Directories : "policies" \notin Past(d)
        BY DEF Past, Directories
    <2>2. QED BY <1>1, <1>2, <2>1, OpeningIsFaithful
<1>3. CASE Refuses /\ ~Admissible(settings')
    BY <1>1, <1>3, RefusingIsFaithful
<1>4. QED BY <1>2, <1>3 DEF Start

LEMMA FaithfulKept ==
    StartupInvariant /\ FaithfulUndisturbed /\ [StartupNext]_startupVars => FaithfulUndisturbed'
<1> SUFFICES ASSUME StartupInvariant, FaithfulUndisturbed, [StartupNext]_startupVars, ~disturbed'
             PROVE  Faithful'
    BY DEF FaithfulUndisturbed
<1>1. ASSUME NEW n \in Names, NEW content \in Contents(n), Edit(n, content) PROVE Faithful'
    <2>1. process' = "down"
        BY <1>1 DEF Edit
    <2>2. QED
        BY <2>1 DEF Faithful, Directories, Past
<1>2. CASE Start
    BY <1>2, StartingIsFaithful
<1>3. CASE ReadNext
    BY <1>3, ReadingIsFaithful DEF ReadNext, FaithfulUndisturbed
<1>4. CASE Judge
    BY <1>4, JudgingIsFaithful DEF Judge, FaithfulUndisturbed
<1>5. CASE Warm
    BY <1>5, WarmingIsFaithful DEF Warm, FaithfulUndisturbed
<1>6. CASE Stop
    BY <1>6 DEF Stop, Faithful, Directories, Past
<1>7. CASE UNCHANGED startupVars
    <2>1. /\ files' = files /\ process' = process /\ settings' = settings /\ unread' = unread
          /\ taken' = taken /\ loaded' = loaded /\ disturbed' = disturbed
        BY <1>7 DEF startupVars
    <2>2. Faithful
        BY <2>1 DEF FaithfulUndisturbed
    <2>3. InOrder' = InOrder
        BY <2>1 DEF InOrder
    <2>4. Admissible(settings)' = Admissible(settings)
        BY <2>1 DEF Admissible, DatabaseIsNamed, WindowsMakeAScale, ProductionIsSafe
    <2>5. \A d \in Directories : AsNamed(d)' = AsNamed(d) /\ OnDisk(d)' = OnDisk(d)
        BY <2>1 DEF AsNamed, OnDisk, Listing
    <2>6. Listing(process)' = Listing(process)
        BY <2>1 DEF Listing
    <2>7. QED BY <2>1, <2>2, <2>3, <2>4, <2>5, <2>6 DEF Faithful
<1>8. QED BY <1>1, <1>2, <1>3, <1>4, <1>5, <1>6, <1>7 DEF StartupNext

\* Unless somebody edits while it reads, a process never turns down files that
\* are in order, and never serves from ones that are not.
THEOREM StartupHasCause == StartupSpec => []RefusesWithCause
<1>1. StartupInit => FaithfulUndisturbed
    BY DEF StartupInit, FaithfulUndisturbed, Faithful, Directories, Past
<1>2. StartupInvariant /\ FaithfulUndisturbed => RefusesWithCause
    <2> SUFFICES ASSUME StartupInvariant, Faithful, process = "serving" PROVE InOrder
        BY DEF FaithfulUndisturbed, Faithful, RefusesWithCause
    <2>1. \A d \in Directories : process \in Past(d)
        BY DEF Past, Directories
    <2>2. QED BY <2>1, OrderIsHolding DEF Faithful, StartupInvariant
<1>3. QED BY <1>1, <1>2, StartupJudges, FaithfulKept, PTL DEF StartupSpec

=============================================================================
