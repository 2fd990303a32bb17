------------------------------- MODULE Startup -------------------------------
(***************************************************************************)
(* A process starting (src/main.py's lifespan, with core/config.py and the  *)
(* loaders of agent/knowledge.py, responses.py and messages.py): settings   *)
(* are checked, then policies, wording and messages are read, file by file  *)
(* in the order of their names, from directories an author may be editing,  *)
(* and either everything holds together or nobody is served.                *)
(*                                                                          *)
(* A file's name restates what is in it.  What is in it is the name it      *)
(* declares, whether it is approved, and for a policy what it claims; the   *)
(* sentences are left out.  Whatever the model of a file refuses on its own *)
(* (a digit, a slot nothing fills, a promise) makes it broken.              *)
(***************************************************************************)
EXTENDS Naturals, FiniteSets, Sequences, SequencesExt

CONSTANTS
    Locales,       \* Locale
    Policies,      \* the ids of policies
    Facts,         \* Fact
    MessageKeys,   \* MessageKey
    Versions,      \* the versions a file can be of
    Claims,        \* what a policy can claim, its kind included
    Sorted,        \* every file name there can be, in the order of sorted()
    Shipped,       \* what the directories can hold to begin with
    Environments,  \* what the process can find in its environment
    MaxEdits       \* bound on the files an author changes

VARIABLES
    files,      \* what is on disk, by name
    edits,      \* how many files have been changed
    process,    \* how far the process has got
    settings,   \* what it found in its environment
    unread,     \* the names listed in the directory it is reading, and not read yet
    taken,      \* what it has read of that directory
    loaded,     \* what it has read of each and trusts
    disturbed   \* whether a file was changed since the process started

startupVars == <<files, edits, process, settings, unread, taken, loaded, disturbed>>

-----------------------------------------------------------------------------
(* Files *)

Directories == {"policies", "responses", "outcome_messages"}
About == [policies |-> Policies, responses |-> Facts, outcome_messages |-> MessageKeys]
Names ==
    UNION {[directory : {d}, what : About[d], locale : Locales, version : Versions] :
              d \in Directories}

\* Only policies claim anything.
NoClaims == "no claims"

ASSUME StartupAssumption ==
    /\ Sorted \in Seq(Names) /\ ToSet(Sorted) = Names
    /\ NoClaims \notin Claims
    /\ MaxEdits \in Nat

Absent(name) ==
    [state |-> "absent", declares |-> name, approved |-> FALSE, claims |-> NoClaims]
Broken(name) == [Absent(name) EXCEPT !.state = "broken"]

\* What the models accept: a policy entry, a response template, an outcome
\* message.  A copied file whose fields were half edited declares another name.
PolicyEntry ==
    [state : {"written"}, declares : {n \in Names : n.directory = "policies"},
     approved : BOOLEAN, claims : Claims]
ResponseTemplate ==
    [state : {"written"}, declares : {n \in Names : n.directory = "responses"},
     approved : BOOLEAN, claims : {NoClaims}]
OutcomeMessage ==
    [state : {"written"}, declares : {n \in Names : n.directory = "outcome_messages"},
     approved : BOOLEAN, claims : {NoClaims}]

Contents(name) ==
    {Absent(name), Broken(name)} \cup
    CASE name.directory = "policies"         -> PolicyEntry
      [] name.directory = "responses"        -> ResponseTemplate
      [] name.directory = "outcome_messages" -> OutcomeMessage

ASSUME ShippedAssumption == \A shipped \in Shipped : \A n \in Names : shipped[n] \in Contents(n)

\* An author writes, replaces or deletes one file.
Edit(name, content) ==
    /\ edits < MaxEdits
    /\ files[name] # content
    /\ files' = [files EXCEPT ![name] = content]
    /\ edits' = edits + 1
    /\ disturbed' = (process # "down")
    /\ UNCHANGED <<process, settings, unread, taken, loaded>>

-----------------------------------------------------------------------------
(* Settings *)

\* Settings: the fields a validator or the rest of the model reads.  "hardened"
\* is a production secret, no wildcard origin and no debugging.
Environment ==
    [production : BOOLEAN, hardened : BOOLEAN, demo : BOOLEAN, database : BOOLEAN,
     ttl : Nat \ {0}, readable : Nat \ {0},
     embedder : {"none", "configured", "misconfigured"}]

ASSUME EnvironmentAssumption == Environments \subseteq Environment

DatabaseIsNamed(env)    == env.database
WindowsMakeAScale(env)  == env.readable >= env.ttl
ProductionIsSafe(env)   == env.production => env.hardened /\ ~env.demo

\* Settings' validators.
Admissible(env) == DatabaseIsNamed(env) /\ WindowsMakeAScale(env) /\ ProductionIsSafe(env)

-----------------------------------------------------------------------------
(* What a set of files has to be, to be trusted                             *)

Approved(read) == {f \in read : f.approved}
Identity(f) == <<f.declares.what, f.declares.locale, f.declares.version>>
Sayable(f)  == <<f.declares.what, f.declares.locale>>

\* _reject_repeated_identities
NoneRepeated(read) == \A f, g \in read : Identity(f) = Identity(g) => f = g

\* _reject_competing_approved_versions, and the constructors of TemplateLibrary
\* and MessageBook.
NoneCompete(read) == \A f, g \in Approved(read) : Sayable(f) = Sayable(g) => f = g

\* _reject_approved_versions_that_disagree_across_locales
VersionsAgree(read) ==
    \A f, g \in Approved(read) :
        f.declares.what = g.declares.what => f.declares.version = g.declares.version

\* _reject_claims_that_differ_by_locale
ClaimsAgree(read) ==
    \A f, g \in read :
        f.declares.what = g.declares.what /\ f.declares.version = g.declares.version
            => f.claims = g.claims

\* Mutant: the versions in force are compared within a language only.
PoliciesHoldPerLocale(read) ==
    read # {} /\ NoneRepeated(read) /\ NoneCompete(read) /\ ClaimsAgree(read)

\* PolicyCorpus
PoliciesHold(read) ==
    /\ read # {}
    /\ NoneRepeated(read) /\ NoneCompete(read)
    /\ VersionsAgree(read) /\ ClaimsAgree(read)

\* TemplateLibrary
ResponsesHold(read) == read # {} /\ NoneCompete(read)

\* Mutant: a sentence somebody has drafted counts as one that can be said.
MessagesHoldDrafted(read) ==
    /\ NoneCompete(read)
    /\ {Sayable(f) : f \in read} = MessageKeys \X Locales

\* MessageBook, and what load_messages makes sure of.
MessagesHold(read) ==
    /\ read # {} /\ NoneCompete(read)
    /\ {Sayable(f) : f \in Approved(read)} = MessageKeys \X Locales

Holds(directory, read) ==
    CASE directory = "policies"         -> PoliciesHold(read)
      [] directory = "responses"        -> ResponsesHold(read)
      [] directory = "outcome_messages" -> MessagesHold(read)

-----------------------------------------------------------------------------
(* The process *)

NoSettings == "not read"
NothingLoaded == [d \in Directories |-> {}]

StartupInit ==
    /\ files \in Shipped
    /\ edits = 0
    /\ process = "down"
    /\ settings = NoSettings
    /\ unread = {}
    /\ taken = {}
    /\ loaded = NothingLoaded
    /\ disturbed = FALSE

Listing(directory) == {n \in Names : n.directory = directory /\ files[n].state # "absent"}

Reads(directory) ==
    /\ process' = directory
    /\ unread' = Listing(directory)
    /\ taken' = {}

Refuses ==
    /\ process' = "refused"
    /\ unread' = {}
    /\ taken' = {}

\* The import of config.py, and then load_corpus.  What the environment says
\* may be another thing each time.
Start ==
    /\ process = "down"
    /\ settings' \in Environments
    /\ IF Admissible(settings') THEN Reads("policies") ELSE Refuses
    /\ UNCHANGED <<files, edits, loaded, disturbed>>

\* The names are taken in the order of sorted().
IsNext(name) ==
    \E i \in DOMAIN Sorted : Sorted[i] = name /\ \A j \in 1..i - 1 : Sorted[j] \notin unread

\* Mutant: what a file declares is not compared with its name.
ReadNextUnnamed ==
    /\ process \in Directories
    /\ \E name \in unread :
          /\ IsNext(name)
          /\ LET file == files[name]
             IN  IF file.state = "written"
                 THEN /\ taken' = taken \cup {file}
                      /\ unread' = unread \ {name}
                      /\ UNCHANGED process
                 ELSE Refuses
    /\ UNCHANGED <<files, edits, settings, loaded, disturbed>>

\* One file.  It may have gone since the directory was listed, may be broken,
\* and may declare another name than its own: any of these ends the process.
ReadNext ==
    /\ process \in Directories
    /\ \E name \in unread :
          /\ IsNext(name)
          /\ LET file == files[name]
             IN  IF file.state = "written" /\ file.declares = name
                 THEN /\ taken' = taken \cup {file}
                      /\ unread' = unread \ {name}
                      /\ UNCHANGED process
                 ELSE Refuses
    /\ UNCHANGED <<files, edits, settings, loaded, disturbed>>

\* What was read is judged as a whole.
Judge ==
    /\ process \in Directories /\ unread = {}
    /\ IF Holds(process, taken)
       THEN /\ loaded' = [loaded EXCEPT ![process] = taken]
            /\ CASE process = "policies" ->
                        process' = "warming" /\ taken' = {} /\ UNCHANGED unread
                 [] process = "responses" -> Reads("outcome_messages")
                 [] process = "outcome_messages" ->
                        process' = "serving" /\ taken' = {} /\ UNCHANGED unread
       ELSE Refuses /\ UNCHANGED loaded
    /\ UNCHANGED <<files, edits, settings, disturbed>>

\* PolicyIndex.warm: an embedder that is away leaves the index lexical, one
\* that will never answer is a reason not to start.  It is not asked when there
\* is nothing to embed.
Warm ==
    /\ process = "warming"
    /\ IF settings.embedder = "misconfigured" /\ Approved(loaded["policies"]) # {}
       THEN Refuses ELSE Reads("responses")
    /\ UNCHANGED <<files, edits, settings, loaded, disturbed>>

\* The process ends, and what it knew with it.
Stop ==
    /\ process \in {"serving", "refused"}
    /\ process' = "down"
    /\ settings' = NoSettings
    /\ loaded' = NothingLoaded
    /\ disturbed' = FALSE
    /\ UNCHANGED <<files, edits, unread, taken>>

StartupNext ==
    \/ \E n \in Names : \E content \in Contents(n) : Edit(n, content)
    \/ Start \/ ReadNext \/ Judge \/ Warm \/ Stop

StartupSpec == StartupInit /\ [][StartupNext]_startupVars

-----------------------------------------------------------------------------
(* Properties *)

\* knowledge.py: "One policy at one version means one rule, whatever language
\* it is in", and no two customers are quoted different ones: whatever was
\* edited while it was read, all a process serves of a policy claims the same.
OneRuleInForce ==
    process = "serving" =>
        \A f, g \in Approved(loaded["policies"]) :
            f.declares.what = g.declares.what => f.claims = g.claims

\* What Records, Answering and Replies take for granted of the process they run
\* in: windows that make a scale, one sentence at most for a fact, and exactly
\* one for everything a customer may have to be told, in every language, so
\* that MessageBook.tell never comes back with nothing; and no invented row
\* where customers are real.
AgentIsEquipped ==
    process = "serving" =>
        /\ settings.ttl <= settings.readable
        /\ ~(settings.production /\ settings.demo)
        /\ \A fact \in Facts, l \in Locales :
              Cardinality({f \in Approved(loaded["responses"]) : Sayable(f) = <<fact, l>>}) <= 1
        /\ \A key \in MessageKeys, l \in Locales :
              Cardinality({f \in Approved(loaded["outcome_messages"]) :
                              Sayable(f) = <<key, l>>}) = 1

\* What is on disk is in order: files hold what their names say, each policy
\* has one rule for a version and one version in force, and everything has a
\* way to be said.
InOrder ==
    LET written == {n \in Names : files[n].state # "absent"}
        inForce(d, what) == {n \in written : /\ n.directory = d /\ n.what = what
                                             /\ files[n].approved}
    IN  /\ \A n \in written : files[n].state = "written" /\ files[n].declares = n
        /\ \A d \in Directories : \E n \in written : n.directory = d
        /\ \A p \in Policies :
              /\ Cardinality({n.version : n \in inForce("policies", p)}) <= 1
              /\ \A v \in Versions :
                    Cardinality({files[n].claims :
                        n \in {m \in written : /\ m.directory = "policies"
                                               /\ m.what = p /\ m.version = v}}) <= 1
        /\ \A fact \in Facts, l \in Locales :
              Cardinality({n \in inForce("responses", fact) : n.locale = l}) <= 1
        /\ \A key \in MessageKeys, l \in Locales :
              Cardinality({n \in inForce("outcome_messages", key) : n.locale = l}) = 1

\* A process refuses to start, or starts, for what is on disk and in its
\* environment, unless somebody was editing while it read: it never turns down
\* files that are in order, and never serves from ones that are not.
RefusesWithCause ==
    ~disturbed =>
        /\ process = "refused" =>
              ~InOrder \/ ~Admissible(settings) \/ settings.embedder = "misconfigured"
        /\ process = "serving" => InOrder

=============================================================================
