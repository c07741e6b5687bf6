------------------------------ MODULE QueryRoute ------------------------------
(***************************************************************************)
(* classifyRetrievalQuery of src/query-routing.ts: which kind of question  *)
(* a query is and which lanes are asked for it. A query is the signals     *)
(* parsing finds in it:                                                    *)
(*   terms, technical, memory: how many terms, terms of the project and    *)
(*     words about remembering it has;                                     *)
(*   dates, phrases, entities: how many dates, quoted phrases and entities *)
(*     known by the caller;                                                *)
(*   asks, plans, looksUp: whether it asks (what, when, remind ...), asks  *)
(*     for what was intended or decided, or has words of looking up.       *)
(***************************************************************************)
EXTENDS Naturals

Counts == {"terms", "technical", "memory", "dates", "phrases", "entities"}
Manners == {"asks", "plans", "looksUp"}
Intents == {"date_lookup", "memory_lookup", "entity_lookup", "technical_project",
            "casual_contact", "general"}

EntityLookup(q) == q.entities >= 2 \/ (q.entities = 1 /\ q.looksUp)
Technical(q) == q.technical >= 2 \/ (q.technical = 1 /\ q.terms >= 3)
LowInformation(q) ==
  \/ q.terms = 0
  \/ q.terms <= 3 /\ q.technical + q.memory + q.dates + q.phrases + q.entities = 0

(* The first rule that fits decides.                                       *)
Intent(q) ==
  IF q.dates > 0 THEN "date_lookup"
  ELSE IF (q.memory > 0 /\ q.asks) \/ q.plans THEN "memory_lookup"
  ELSE IF EntityLookup(q) THEN "entity_lookup"
  ELSE IF Technical(q) THEN "technical_project"
  ELSE IF q.memory > 0 THEN "memory_lookup"
  ELSE IF LowInformation(q) THEN "casual_contact"
  ELSE "general"

(* The lanes recallRouteSkipArgs of src/memory.ts leaves on for a query.   *)
RecallLanes(q) ==
  {"search"}
  \union {"semantic" : x \in {Intent(q)} \intersect {"general", "memory_lookup", "entity_lookup"}}
  \union {"content" : x \in {Intent(q)} \ {"casual_contact"}}
  \union {"date" : x \in {q.dates} \ {0}}
=============================================================================
