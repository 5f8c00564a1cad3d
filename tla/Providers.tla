----------------------------- MODULE Providers -----------------------------
(***************************************************************************)
(* ProviderManager and ProviderRegistry (providers/base.py): threads call  *)
(* generate_response and generate_stream while others register and remove  *)
(* providers and the observability service is reloaded.  The registry has  *)
(* no lock, so a call looks its providers up one after the other in a      *)
(* table that changes meanwhile.  generate is a lookup and a call that     *)
(* leaves the manager as it is.                                            *)
(***************************************************************************)
EXTENDS Integers, Sequences, SequencesExt

CONSTANTS Requests,      \* calls, each in a thread of its own
          KindOf,        \* [Requests -> {"response", "stream"}]
          Wishes,        \* names a request asks for: extra_params, model prefix
          Fallbacks,     \* [Requests -> sequence of names]: the fallback chain
          ProviderNames, DefaultName, MockName,
          Providers, ProviderName, NoProvider,
          Standard,      \* [ProviderNames -> Providers or none]: registered at first
          MaxChanges     \* bound: registrations, removals and reloads

ASSUME ProvidersAssumption ==
    /\ IsFiniteSet(Requests)
    /\ DefaultName \in ProviderNames /\ MockName \in ProviderNames
    /\ ProviderName \in [Providers -> ProviderNames] /\ NoProvider \notin Providers
    /\ Standard \in [ProviderNames -> Providers \cup {NoProvider}]
    /\ \A r \in Requests : /\ KindOf[r] \in {"response", "stream"}
                           /\ Wishes[r] \in Seq(ProviderNames)
                           /\ Fallbacks[r] \in Seq(ProviderNames)

VARIABLES registry,  \* ProviderRegistry._providers: name -> provider
          ai,        \* the state of each call
          requests,  \* yasin_ai_generation_requests_total by name
          errors,    \* yasin_ai_generation_errors_total by name
          ended,     \* how many provider calls ended, by name
          lost,      \* requests that reloads have erased, by name
          strays,    \* errors still to be counted when their request was erased
          settled,   \* names whose registration has not changed since a call began
          changes

prVars == <<registry, ai, requests, errors, ended, lost, strays, settled, changes>>

Zero == [n \in ProviderNames |-> 0]

\* the constructor registers the standard providers
PrInit == /\ registry = Standard
          /\ ai = [r \in Requests |-> [pc |-> "new", noted |-> MockName, tries |-> <<>>,
                                       look |-> 1, at |-> 1, ok |-> FALSE, failed |-> {}]]
          /\ requests = Zero /\ errors = Zero /\ ended = Zero /\ lost = Zero /\ strays = Zero
          /\ settled = [r \in Requests |-> {}] /\ changes = 0

----------------------------------------------------------------------------
(* The registry                                                            *)

Puts(n, p) == /\ changes < MaxChanges /\ changes' = changes + 1
              /\ registry' = [registry EXCEPT ![n] = p]
              /\ settled' = [r \in Requests |-> settled[r] \ {n}]
              /\ UNCHANGED <<ai, requests, errors, ended, lost, strays>>

register_provider(p) == registry[ProviderName[p]] # p /\ Puts(ProviderName[p], p)

remove_provider(n) == registry[n] # NoProvider /\ Puts(n, NoProvider)

----------------------------------------------------------------------------
(* Finding the providers to try                                            *)

Live == {n \in ProviderNames : registry[n] # NoProvider}

AiAt(r, pc) == ai[r].pc = pc
AiGoes(r, c) == ai' = [ai EXCEPT ![r] = c]
NoCount == UNCHANGED <<registry, requests, errors, ended, lost, strays, changes>>

\* a call of generate_response or generate_stream begins; a stream may get its
\* first wish as provider_name, and is not routed then
Begin(r) ==
    /\ AiAt(r, "new")
    /\ settled' = [settled EXCEPT ![r] = ProviderNames]
    /\ \/ AiGoes(r, [ai[r] EXCEPT !.pc = "route"])
       \/ /\ KindOf[r] = "stream" /\ Wishes[r] # <<>>
          /\ AiGoes(r, [ai[r] EXCEPT !.pc = "take", !.noted = Head(Wishes[r])])
    /\ NoCount

\* the provider that was found, or None: a stream needs one, a response puts it
\* at the head of what it tries whatever it is
Chosen(r, p) ==
    IF KindOf[r] = "response" THEN [ai[r] EXCEPT !.pc = "look", !.at = 1, !.tries = <<p>>]
    ELSE IF p = NoProvider THEN [ai[r] EXCEPT !.pc = "unrouted"]
    ELSE [ai[r] EXCEPT !.pc = "try", !.at = 1, !.tries = <<p>>]

\* the names that route_request looks up one after the other
Preferences(r) == Wishes[r] \o <<DefaultName, MockName>>

\* the next preference: its provider is taken if there is one
Route(r) ==
    /\ AiAt(r, "route") /\ ai[r].at <= Len(Preferences(r))
    /\ LET p == registry[Preferences(r)[ai[r].at]]
       IN  AiGoes(r, IF p = NoProvider THEN [ai[r] EXCEPT !.at = @ + 1] ELSE Chosen(r, p))
    /\ UNCHANGED settled /\ NoCount

\* no preference is registered: list_providers, of which the first is noted;
\* the table is in the order of registration, which is any order
ListProviders(r) ==
    /\ AiAt(r, "route") /\ ai[r].at > Len(Preferences(r))
    /\ \/ Live = {} /\ AiGoes(r, [ai[r] EXCEPT !.pc = "unrouted"])
       \/ \E n \in Live : AiGoes(r, [ai[r] EXCEPT !.pc = "take", !.noted = n])
    /\ UNCHANGED settled /\ NoCount

\* get_provider of the noted name, that may have been removed since
Take(r) ==
    /\ AiAt(r, "take")
    /\ AiGoes(r, Chosen(r, registry[ai[r].noted]))
    /\ UNCHANGED settled /\ NoCount

\* Mutant: the chain is taken as it is.
LookUpAgain(r) ==
    /\ AiAt(r, "look") /\ ai[r].look <= Len(Fallbacks[r])
    /\ LET p == registry[Fallbacks[r][ai[r].look]]
       IN  AiGoes(r, [ai[r] EXCEPT !.look = @ + 1,
                                   !.tries = IF p = NoProvider THEN @ ELSE Append(@, p)])
    /\ UNCHANGED settled /\ NoCount

\* the next name of the chain: its provider is tried too, unless it is to be
\* tried already
LookUp(r) ==
    /\ AiAt(r, "look") /\ ai[r].look <= Len(Fallbacks[r])
    /\ LET p == registry[Fallbacks[r][ai[r].look]]
       IN  AiGoes(r, [ai[r] EXCEPT !.look = @ + 1,
                                   !.tries = IF p = NoProvider \/ Contains(@, p)
                                               THEN @ ELSE Append(@, p)])
    /\ UNCHANGED settled /\ NoCount

LookedUp(r) == /\ AiAt(r, "look") /\ ai[r].look > Len(Fallbacks[r])
               /\ AiGoes(r, [ai[r] EXCEPT !.pc = "try"])
               /\ UNCHANGED settled /\ NoCount

----------------------------------------------------------------------------
(* Trying them                                                             *)

Trying(r) == ai[r].tries[ai[r].at]
Add(counter, r) == [counter EXCEPT ![ProviderName[Trying(r)]] = @ + 1]

\* the provider's generate_response or generate_stream runs to its end; a
\* response whose usage cannot be read is an exception too
Attempt(r) ==
    /\ AiAt(r, "try") /\ Trying(r) # NoProvider
    /\ \E ok \in BOOLEAN :
          AiGoes(r, [ai[r] EXCEPT !.pc = "count", !.ok = ok,
                                  !.failed = IF ok THEN @ ELSE @ \cup {Trying(r)}])
    /\ ended' = Add(ended, r)
    /\ UNCHANGED <<registry, requests, errors, lost, strays, settled, changes>>

\* None.generate_response raises, and so does the handler's p.name: the call
\* ends with nothing counted and no fallback tried
AttemptNone(r) ==
    /\ AiAt(r, "try") /\ Trying(r) = NoProvider
    /\ AiGoes(r, [ai[r] EXCEPT !.pc = "raised"])
    /\ UNCHANGED settled /\ NoCount

\* the consumer of a stream drops it: GeneratorExit is no Exception, so that
\* neither branch records anything
Abandon(r) == /\ AiAt(r, "try") /\ KindOf[r] = "stream"
              /\ AiGoes(r, [ai[r] EXCEPT !.pc = "abandoned"])
              /\ UNCHANGED settled /\ NoCount

\* _record_metrics: the number of requests first
CountRequest(r) ==
    /\ AiAt(r, "count")
    /\ requests' = Add(requests, r)
    /\ AiGoes(r, [ai[r] EXCEPT !.pc = IF ai[r].ok THEN "returned" ELSE "count_error"])
    /\ UNCHANGED <<registry, errors, ended, lost, strays, settled, changes>>

\* Mutant: the last provider of the list is left out.
AfterErrorShort(r) ==
    IF KindOf[r] = "response" /\ ai[r].at < Len(ai[r].tries) - 1
      THEN [ai[r] EXCEPT !.pc = "try", !.at = @ + 1] ELSE [ai[r] EXCEPT !.pc = "raised"]

\* a failed attempt is followed by the next one; the last error is raised, and
\* a stream raises at once
AfterError(r) ==
    IF KindOf[r] = "response" /\ ai[r].at < Len(ai[r].tries)
      THEN [ai[r] EXCEPT !.pc = "try", !.at = @ + 1] ELSE [ai[r] EXCEPT !.pc = "raised"]

\* Mutant: an error is counted under the provider that is tried next.
CountErrorNext(r) ==
    /\ AiAt(r, "count_error")
    /\ errors' = [errors EXCEPT ![ProviderName[Last(ai[r].tries)]] = @ + 1]
    /\ AiGoes(r, AfterError(r))
    /\ UNCHANGED <<registry, requests, ended, lost, strays, settled, changes>>

\* and then the number of errors
CountError(r) ==
    /\ AiAt(r, "count_error")
    /\ errors' = Add(errors, r)
    /\ AiGoes(r, AfterError(r))
    /\ UNCHANGED <<registry, requests, ended, lost, strays, settled, changes>>

\* the calls whose provider call has ended and is not counted yet, and those
\* that have counted their request and not their error
Counting(n) == {r \in Requests : AiAt(r, "count") /\ ProviderName[Trying(r)] = n}
Failing(n) == {r \in Requests : AiAt(r, "count_error") /\ ProviderName[Trying(r)] = n}

\* the observability service is reloaded: its counters start from zero.  A
\* count that has found its counter already goes with the counters before.
ReloadMetrics ==
    /\ changes < MaxChanges /\ changes' = changes + 1
    /\ requests' = Zero /\ errors' = Zero
    /\ lost' = [n \in ProviderNames |-> lost[n] + requests[n]]
    /\ strays' = [n \in ProviderNames |-> Cardinality(Failing(n))]
    /\ UNCHANGED <<registry, ai, ended, settled>>

PrNext ==
    \/ \E p \in Providers : register_provider(p)
    \/ \E n \in ProviderNames : remove_provider(n)
    \/ ReloadMetrics
    \/ \E r \in Requests : \/ Begin(r) \/ Route(r) \/ ListProviders(r) \/ Take(r)
                           \/ LookUp(r) \/ LookedUp(r) \/ Attempt(r) \/ AttemptNone(r)
                           \/ Abandon(r) \/ CountRequest(r) \/ CountError(r)

PrSpec == PrInit /\ [][PrNext]_prVars

----------------------------------------------------------------------------
(* Properties                                                              *)

\* No provider is asked twice for one request, although the one that was
\* routed to may be in the chain as well.
NoProviderTwice == \A r \in Requests : IsInjective(ai[r].tries)

\* When the caller of generate_response gets an exception, every provider of
\* its chain whose registration did not change during the call has been tried
\* and has failed - unless the provider it was routed to was removed between
\* its listing and its lookup, when the call ends at once.
FailureIsExhaustive ==
    \A r \in Requests :
        ai[r].pc \in {"raised", "unrouted"} /\ KindOf[r] = "response"
            /\ ~ (AiAt(r, "raised") /\ Head(ai[r].tries) = NoProvider) =>
        \A i \in DOMAIN Fallbacks[r] :
            Fallbacks[r][i] \in settled[r] \cap Live => registry[Fallbacks[r][i]] \in ai[r].failed

\* base.py:282, "implements fallback chaining on failure": a call that raises
\* has tried the providers of its chain that stayed, whatever it was routed to.
ChainIsTriedOnFailure ==
    \A r \in Requests : AiAt(r, "raised") /\ KindOf[r] = "response" =>
        \A i \in DOMAIN Fallbacks[r] :
            Fallbacks[r][i] \in settled[r] \cap Live => registry[Fallbacks[r][i]] \in ai[r].failed

\* Whoever reads the two counters sees no more errors than requests, apart from
\* the errors of the requests that a reload has erased in between, and every
\* attempt that ended was counted once under its provider or is about to be.
MetricsAddUp ==
    \A n \in ProviderNames :
        /\ errors[n] <= requests[n] + strays[n]
        /\ ended[n] = lost[n] + requests[n] + Cardinality(Counting(n))

\* What a call tries, what it counts and what it tells its caller agree.
CallsAccountedFor == NoProviderTwice /\ FailureIsExhaustive /\ MetricsAddUp
============================================================================
