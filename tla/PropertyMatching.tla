-------------------------- MODULE PropertyMatching --------------------------
(***************************************************************************)
(* What src/modules/property-matching keeps: the preference of a subject,  *)
(* the recommendations computed from it, the scores of the last one, and   *)
(* the rules with their weights.  How listings are ranked is in            *)
(* MatchingEngine.  A preference's criteria are a number that changes      *)
(* whenever they do.  A transaction that begins with an update over all    *)
(* rows of its kind holds them, and the gaps, until it ends: it is one     *)
(* step.                                                                   *)
(***************************************************************************)
EXTENDS Requests

CONSTANTS
  MaxPreferenceVersion,      \* bound: versions of the preference
  MaxRecommendations,        \* bound: recommendations
  RuleNames, MaxRuleVersion  \* bound: versions of a rule

PreferenceRow ==
  [version : 1..MaxPreferenceVersion, status : {"ACTIVE", "ARCHIVED"}, criteria : Nat]

ASSUME PropertyMatchingAssumption ==
  /\ {MaxPreferenceVersion, MaxRecommendations, MaxRuleVersion} \subseteq Nat \ {0}
  /\ None \notin PreferenceRow

VARIABLES
  preference,       \* property_preferences: version, status, criteria; or None
  recommendation,   \* recommendations, in the order of their ids: preferenceVersion,
                    \* generatedAt, and the criteria they were computed from
  rule              \* matching_rules: name and version of those there are, isActive

matchingVars == <<preference, recommendation, rule>>

PropertyMatchingInit == preference = None /\ recommendation = {} /\ rule = {}

-----------------------------------------------------------------------------
(* Preferences.  The version that a client sends is the one it has read.   *)

PreferenceRead(p, op) ==
  /\ preference # None
  /\ preference.status = IF op = "restorePreference" THEN "ARCHIVED" ELSE "ACTIVE"
  /\ Start(p, [op |-> op, version |-> preference.version, criteria |-> preference.criteria])
  /\ UNCHANGED <<matchingVars, clock>>

\* createPreference of a subject that has none (unique key); one that has been
\* archived is restored with other criteria.
CreatePreference ==
  /\ preference = None
  /\ preference' = [version |-> 1, status |-> "ACTIVE", criteria |-> 1]
  /\ UNCHANGED <<req, clock, recommendation, rule>>

\* Mutants: the version is incremented not at all, or twice.
NextVersionSame(v) == v
NextVersionTwice(v) == v + 2
NextVersion(v) == v + 1

\* updateMany where the version is the expected one, else a conflict.
PreferenceWrite(p, op, status, next, criteria) ==
  /\ Running(p, op)
  /\ preference.version < MaxPreferenceVersion
  /\ preference' = IF preference.version = req[p].version /\ preference.status = status
                   THEN [version |-> NextVersion(preference.version), status |-> next,
                         criteria |-> criteria]
                   ELSE preference
  /\ Done(p)
  /\ UNCHANGED <<clock, recommendation, rule>>

UpdatePreference(p) ==
  PreferenceWrite(p, "updatePreference", "ACTIVE", "ACTIVE", preference.criteria + 1)
ArchivePreference(p) ==
  PreferenceWrite(p, "archivePreference", "ACTIVE", "ARCHIVED", preference.criteria)
\* With the criteria that were read, or with those that createPreference was given.
RestorePreference(p) ==
  \E c \in {req[p].criteria, preference.criteria + 1} :
    PreferenceWrite(p, "restorePreference", "ARCHIVED", "ACTIVE", c)

-----------------------------------------------------------------------------
(* Recommendations.                                                        *)

\* generate reads the preference, ranks the candidates and then saves.
GenerateRead(p) ==
  /\ preference # None /\ preference.status = "ACTIVE"
  /\ Start(p, [op |-> "generate", at |-> "rank", version |-> preference.version,
               criteria |-> preference.criteria, now |-> 0])
  /\ UNCHANGED <<matchingVars, clock>>

GenerateNow(p) ==
  /\ Running(p, "generate") /\ At(p, "rank")
  /\ req' = [req EXCEPT ![p].at = "save", ![p].now = clock]
  /\ UNCHANGED <<matchingVars, clock>>

SavedVersion(p) == req[p].version

SaveRecommendation(p) ==
  /\ Running(p, "generate") /\ At(p, "save")
  /\ Cardinality(recommendation) < MaxRecommendations
  /\ recommendation' = recommendation \cup
       {[id |-> Cardinality(recommendation) + 1, version |-> SavedVersion(p),
         generatedAt |-> req[p].now, criteria |-> req[p].criteria]}
  /\ Done(p)
  /\ UNCHANGED <<preference, rule, clock>>

\* getLatestRecommendation: by generatedAt, then by id.
Latest ==
  CHOOSE r \in recommendation : \A s \in recommendation :
    r.generatedAt > s.generatedAt \/ (r.generatedAt = s.generatedAt /\ r.id >= s.id)

\* The part of stale that is about the preference.
Stale(r) == preference.version # r.version

-----------------------------------------------------------------------------
(* Rules.                                                                  *)

\* Mutant: the active rule is not deactivated.
DeactivatedNone == rule
Deactivated == {[r EXCEPT !.isActive = FALSE] : r \in rule}

InsertRule(name, version, activate) ==
  /\ \A r \in rule : r.name # name \/ r.version # version
  /\ rule' = (IF activate THEN Deactivated ELSE rule)
               \cup {[name |-> name, version |-> version, isActive |-> activate]}

CreateRule(name, activate) ==
  /\ InsertRule(name, 1, activate)
  /\ UNCHANGED <<req, clock, preference, recommendation>>

RuleRead(p, op, r) ==
  /\ Start(p, [op |-> op, rule |-> r])
  /\ UNCHANGED <<matchingVars, clock>>

\* The next version is created, active if the one that was read was.
UpdateRule(p) ==
  /\ Running(p, "updateRule") /\ req[p].rule.version < MaxRuleVersion
  /\ InsertRule(req[p].rule.name, req[p].rule.version + 1, req[p].rule.isActive)
  /\ Done(p)
  /\ UNCHANGED <<clock, preference, recommendation>>

ActivateRule(p) ==
  /\ Running(p, "activateRule")
  /\ rule' = {[r EXCEPT !.isActive = @ \/ (r.name = req[p].rule.name /\ r.version = req[p].rule.version)]
                : r \in Deactivated}
  /\ Done(p)
  /\ UNCHANGED <<clock, preference, recommendation>>

-----------------------------------------------------------------------------
MatchingAbandon(p) == req[p] # None /\ Done(p) /\ UNCHANGED <<matchingVars, clock>>

PreferenceNext ==
  \/ CreatePreference
  \/ Tick /\ UNCHANGED matchingVars
  \/ \E p \in Procs :
       \/ \E op \in {"updatePreference", "archivePreference", "restorePreference"} : PreferenceRead(p, op)
       \/ UpdatePreference(p) \/ ArchivePreference(p)
       \/ Running(p, "restorePreference") /\ RestorePreference(p)
       \/ GenerateRead(p) \/ GenerateNow(p) \/ SaveRecommendation(p)
       \/ MatchingAbandon(p)

RuleNext ==
  \/ \E n \in RuleNames, b \in BOOLEAN : CreateRule(n, b)
  \/ \E p \in Procs :
       \/ \E op \in {"updateRule", "activateRule"}, r \in rule : RuleRead(p, op, r)
       \/ UpdateRule(p) \/ ActivateRule(p) \/ MatchingAbandon(p)

PropertyMatchingNext ==
  \/ focus = "matching preference" /\ PreferenceNext
  \/ focus = "matching rule" /\ RuleNext

-----------------------------------------------------------------------------
(* Properties.                                                             *)

\* The rows have the types of the schema.
PropertyMatchingTypeOK ==
  /\ preference \in PreferenceRow \cup {None}
  /\ \A r \in recommendation :
       r.version \in 1..MaxPreferenceVersion /\ r.generatedAt \in 0..MaxClock
  /\ rule \subseteq [name : RuleNames, version : 1..MaxRuleVersion, isActive : BOOLEAN]

\* A latest recommendation that is not shown as stale was computed from the
\* criteria that the subject has now, and the preference is not archived: updates,
\* archiving and restoring in the middle of a generate all change the version.
NotStaleIsCurrent ==
  recommendation # {} /\ ~Stale(Latest) =>
    Latest.criteria = preference.criteria /\ preference.status = "ACTIVE"

\* At most one rule is active, whatever creations, updates and activations
\* overlap: generate weighs with that one.
OneActiveRule == \A r, s \in rule : r.isActive /\ s.isActive => r = s
=============================================================================
