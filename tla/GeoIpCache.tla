------------------------------ MODULE GeoIpCache ------------------------------
(***************************************************************************)
(* Country look-ups of one address by the processes of one tenant:         *)
(* IpinfoLiteProvider (providers/geoip-provider.ts), its durable cache     *)
(* with refresh leases (db/geoip-cache-operations.ts) and the rotation of  *)
(* the key the cache is addressed with.                                    *)
(*                                                                         *)
(* Time is a number of ticks.  A look-up reads the clock once and uses     *)
(* that reading for everything it does.  Evidence is identified by the     *)
(* reading it was observed at; a lease by its process and that reading.    *)
(***************************************************************************)
EXTENDS Naturals

CONSTANTS
  Processes,
  Ttl,         \* cacheTtlMs
  Retention,   \* retentionDays
  LeaseTime,   \* min(timeoutMs, deadline)
  MaxClock     \* the last tick (bound)

ASSUME GeoIpAssumption ==
  /\ Ttl \in Nat \ {0} /\ Retention \in Nat /\ LeaseTime \in Nat \ {0} /\ MaxClock \in Nat
  /\ Ttl <= Retention

VARIABLES
  clock,
  entry,      \* geoip_cache_entries of the address, by key version
  lease,      \* geoip_cache_leases of the address, by key version
  ring,       \* the key version a process was started with
  local,      \* the process-local tier
  lookup

geoVars == <<clock, entry, lease, ring, local, lookup>>

-----------------------------------------------------------------------------
Keys == {"old", "new"}
Ticks == 0..MaxClock
Nowhere == "nothing"

\* A row: its observation, until when it is fresh and kept, and the key version it was
\* asked for under (history).
Entry(t, k) == [observed |-> t, expires |-> t + Ttl, purge |-> t + Retention, asked |-> k]
NoEntry == [observed |-> 0, expires |-> 0, purge |-> 0, asked |-> Nowhere]
Entries == {NoEntry} \cup {Entry(t, k) : t \in Ticks, k \in Keys}
NoLease == [holder |-> Nowhere, since |-> 0, expires |-> 0]
Leases == {NoLease} \cup
  {[holder |-> p, since |-> t, expires |-> t + LeaseTime] : p \in Processes, t \in Ticks}

GeoTypeOK ==
  /\ clock \in Ticks
  /\ entry \in [Keys -> Entries]
  /\ lease \in [Keys -> Leases]
  /\ ring \in [Processes -> Keys]
  /\ local \in [Processes -> Entries]
  /\ lookup \in [Processes -> [pc : {"ready", "claiming", "asking", "completing", "releasing"},
                               start : Ticks]]

Ready == [pc |-> "ready", start |-> 0]

GeoInit ==
  /\ clock = 0
  /\ entry = [k \in Keys |-> NoEntry]
  /\ lease = [k \in Keys |-> NoLease]
  /\ ring = [p \in Processes |-> "old"]
  /\ local = [p \in Processes |-> NoEntry]
  /\ lookup = [p \in Processes |-> Ready]

-----------------------------------------------------------------------------
Start(p) == lookup[p].start
LookupTo(p, pc) == lookup' = [lookup EXCEPT ![p].pc = pc]
Concluded(p) == lookup' = [lookup EXCEPT ![p] = Ready]

Kept(t) == [k \in Keys |-> IF entry[k].purge <= t THEN NoEntry ELSE entry[k]]
Leased(t) == [k \in Keys |-> IF lease[k].expires <= t THEN NoLease ELSE lease[k]]

\* lookup, unless the process-local tier answers.
BeginLookup(p) ==
  /\ lookup[p].pc = "ready"
  /\ local[p].expires <= clock
  /\ lookup' = [lookup EXCEPT ![p] = [pc |-> "claiming", start |-> clock]]
  /\ UNCHANGED <<clock, entry, lease, ring, local>>

\* The row moves to the current key, its times copied verbatim.
Rotated(p) == [Kept(Start(p)) EXCEPT !["new"] = entry["old"], !["old"] = NoEntry]

\* claimGeoIpCache: it sweeps what has expired, then answers from the current key, or
\* from the previous one, whose row it moves, or takes the lease, or finds it taken.
Claim(p) ==
  LET k == ring[p]
      t == Start(p)
      Hit(key) == Kept(t)[key].expires > t
      Previous == k = "new" /\ Hit("old")
  IN
  /\ lookup[p].pc = "claiming"
  /\ \/ Hit(k) /\ entry' = Kept(t) /\ lease' = Leased(t) /\ Concluded(p)
     \/ ~Hit(k) /\ Previous /\ entry' = Rotated(p) /\ lease' = Leased(t) /\ Concluded(p)
     \/ /\ ~Hit(k) /\ ~Previous /\ Leased(t)[k] # NoLease
        /\ entry' = Kept(t) /\ lease' = Leased(t)
        /\ Concluded(p)
     \/ /\ ~Hit(k) /\ ~Previous /\ Leased(t)[k] = NoLease
        /\ entry' = Kept(t)
        /\ lease' = [Leased(t) EXCEPT
                       ![k] = [holder |-> p, since |-> t, expires |-> t + LeaseTime]]
        /\ LookupTo(p, "asking")
  /\ UNCHANGED <<clock, ring, local>>

\* A known country, or one of the reasons for none: 429, an error, bogon, timeout.
Ask(p) ==
  /\ lookup[p].pc = "asking"
  /\ LookupTo(p, "completing") \/ LookupTo(p, "releasing")
  /\ UNCHANGED <<clock, entry, lease, ring, local>>

\* Mutant: the answer is stored whoever holds the lease.
HoldsAnyLease(p) == lookup[p].pc # "ready"

HoldsLease(p) ==
  lease[ring[p]].holder = p /\ lease[ring[p]].since = Start(p) /\ lease[ring[p]] # NoLease

Freed(p) == IF HoldsLease(p) THEN [lease EXCEPT ![ring[p]] = NoLease] ELSE lease

\* completeGeoIpCache; what was not committed under the lease is not kept locally.
Complete(p) ==
  /\ lookup[p].pc = "completing"
  /\ IF HoldsLease(p)
     THEN /\ entry' = [entry EXCEPT ![ring[p]] = Entry(Start(p), ring[p])]
          /\ local' = [local EXCEPT ![p] = Entry(Start(p), ring[p])]
     ELSE UNCHANGED <<entry, local>>
  /\ lease' = Freed(p)
  /\ Concluded(p)
  /\ UNCHANGED <<clock, ring>>

\* releaseGeoIpCacheLease
Release(p) ==
  /\ lookup[p].pc = "releasing"
  /\ lease' = Freed(p)
  /\ Concluded(p)
  /\ UNCHANGED <<clock, entry, ring, local>>

\* The storage fails at any point of a look-up.
LookupFails(p) ==
  /\ lookup[p].pc \in {"claiming", "completing", "releasing"}
  /\ Concluded(p)
  /\ UNCHANGED <<clock, entry, lease, ring, local>>

\* A process stops and starts again, with the new key or the one it had.
Restart(p) ==
  /\ lookup' = [lookup EXCEPT ![p] = Ready]
  /\ local' = [local EXCEPT ![p] = NoEntry]
  /\ ring' \in {ring, [ring EXCEPT ![p] = "new"]}
  /\ UNCHANGED <<clock, entry, lease>>

\* purgeExpiredGeoIpCache
PurgeExpired ==
  /\ entry' = Kept(clock)
  /\ lease' = Leased(clock)
  /\ UNCHANGED <<clock, ring, local, lookup>>

Tick ==
  /\ clock < MaxClock
  /\ clock' = clock + 1
  /\ UNCHANGED <<entry, lease, ring, local, lookup>>

-----------------------------------------------------------------------------
Lookup(p) ==
  \/ BeginLookup(p) \/ Claim(p) \/ Ask(p) \/ Complete(p) \/ Release(p)
  \/ LookupFails(p) \/ Restart(p)

GeoNext == PurgeExpired \/ Tick \/ \E p \in Processes : Lookup(p)

GeoSpec == GeoInit /\ [][GeoNext]_geoVars
=============================================================================
