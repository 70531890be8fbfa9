----------------------------- MODULE DynamicDns -----------------------------
(***************************************************************************)
(* The updater of the DNS record, Linux/src/dynamic-dns.cpp, in its loop:  *)
(* ask for the public address, resolve the domain, and, when they differ,  *)
(* notify the user and write the record at Cloudflare.  The process keeps  *)
(* nothing between two checks, so one run per timer tick behaves alike.    *)
(*                                                                         *)
(* Around it: the provider changes the address at any moment; a resolver   *)
(* answers from its cache; every call may fail; and an update that timed   *)
(* out may be lost, or reach the record later than a newer one.            *)
(***************************************************************************)
EXTENDS Integers, FiniteSets

CONSTANTS
  Addrs,        \* public addresses
  ProxyAddr,    \* what the resolver returns for a proxied record
  NoAddr,       \* the empty string
  MaxChanges    \* bound on the changes of the address

ASSUME DnsAssumption ==
  /\ Addrs # {}
  /\ ProxyAddr \notin Addrs
  /\ NoAddr \notin Addrs \cup {ProxyAddr}
  /\ MaxChanges \in Nat

VARIABLES
  proxied,      \* CF_PROXIED
  public,       \* the public address of this network
  changes,      \* how often it has changed
  record,       \* the content of the record
  cached,       \* what the resolver remembers of it
  late,         \* addresses of updates that timed out and may still arrive
  pc,           \* where run_ddns_check is
  public_ip,    \* public_ip
  current_ip,   \* current_ip
  during        \* history: the addresses that were public in this check

world == <<public, changes, record, cached, late, during>>
check == <<pc, public_ip, current_ip>>
vars == <<proxied, world, check>>

Init ==
  /\ proxied \in BOOLEAN
  /\ public \in Addrs
  /\ changes = 0
  /\ record \in Addrs
  /\ cached = NoAddr
  /\ late = {}
  /\ pc = "sleep"
  /\ public_ip = NoAddr
  /\ current_ip = NoAddr
  /\ during = {}

\* What a name server says of the record.
Visible == IF proxied THEN ProxyAddr ELSE record

Answer == IF cached = NoAddr THEN Visible ELSE cached

-----------------------------------------------------------------------------
\* The world.

ChangeAddress(a) ==
  /\ changes < MaxChanges
  /\ a # public
  /\ public' = a
  /\ changes' = changes + 1
  /\ during' = IF pc = "sleep" THEN during ELSE during \cup {a}
  /\ UNCHANGED <<proxied, record, cached, late, check>>

\* The time to live of the answer ends, or somebody else asks.
Expire ==
  /\ cached # NoAddr
  /\ cached' = NoAddr
  /\ UNCHANGED <<proxied, public, changes, record, late, during, check>>

OthersResolve ==
  /\ cached' = Answer
  /\ UNCHANGED <<proxied, public, changes, record, late, during, check>>

\* An update of which the answer was not waited for is applied, or is not.
ArriveLate(a) ==
  /\ a \in late
  /\ late' = late \ {a}
  /\ record' \in {a, record}
  /\ UNCHANGED <<proxied, public, changes, cached, during, check>>

-----------------------------------------------------------------------------
\* run_ddns_check.  Its strings are local: they end with the check.

\* The check is over.
Return ==
  /\ pc' = "sleep"
  /\ public_ip' = NoAddr
  /\ current_ip' = NoAddr

Begin ==
  /\ pc = "sleep"
  /\ pc' = "ip"
  /\ during' = {public}
  /\ UNCHANGED <<proxied, public, changes, record, cached, late, public_ip, current_ip>>

\* get_public_ip: an address, or no answer that is one.
GetPublicIp ==
  /\ pc = "ip"
  /\ public_ip' = public
  /\ pc' = "resolve"
  /\ UNCHANGED <<proxied, world, current_ip>>

\* Defective variant: the check goes on without a public address.
GetPublicIpFailsGoesOn ==
  /\ pc = "ip"
  /\ pc' = "resolve"
  /\ UNCHANGED <<proxied, world, public_ip, current_ip>>

GetPublicIpFails ==
  /\ pc = "ip"
  /\ Return
  /\ UNCHANGED <<proxied, world>>

\* Defective variants, not part of the specification: a check that ends when
\* the message could not be sent; an update with what was resolved.
NotifyOrReturn ==
  /\ pc = "notify"
  /\ \/ pc' = "update" /\ UNCHANGED <<public_ip, current_ip>>
     \/ Return
  /\ UNCHANGED <<proxied, world>>

UpdateWithResolved ==
  /\ pc = "update"
  /\ record' = IF current_ip = NoAddr THEN public_ip ELSE current_ip
  /\ Return
  /\ UNCHANGED <<proxied, public, changes, cached, late, during>>

\* resolve_domain_ip: the answer to nslookup ...
Resolve ==
  /\ pc = "resolve"
  /\ current_ip' = Answer
  /\ cached' = Answer
  /\ pc' = "compare"
  /\ UNCHANGED <<proxied, public, changes, record, late, during, public_ip>>

\* ... or that of the system's resolver, which has a cache of its own and, for a
\* wildcard, is asked for the parent domain; or none.
ResolveFallback ==
  /\ pc = "resolve"
  /\ current_ip' \in Addrs \cup {ProxyAddr, NoAddr}
  /\ pc' = "compare"
  /\ UNCHANGED <<proxied, world, public_ip>>

\* if (current_ip != public_ip)
Differ ==
  /\ pc = "compare"
  /\ current_ip # public_ip
  /\ pc' = "notify"
  /\ UNCHANGED <<proxied, world, public_ip, current_ip>>

UpToDate ==
  /\ pc = "compare"
  /\ current_ip = public_ip
  /\ Return
  /\ UNCHANGED <<proxied, world>>

\* send_telegram_message, of which the result is ignored.
Notify ==
  /\ pc = "notify"
  /\ pc' = "update"
  /\ UNCHANGED <<proxied, world, public_ip, current_ip>>

\* update_cloudflare_dns: done; refused; or no answer within 15 seconds.
Update ==
  /\ pc = "update"
  /\ record' = public_ip
  /\ Return
  /\ UNCHANGED <<proxied, public, changes, cached, late, during>>

UpdateFails ==
  /\ pc = "update"
  /\ late' \in {late, late \cup {public_ip}}
  /\ Return
  /\ UNCHANGED <<proxied, public, changes, record, cached, during>>

-----------------------------------------------------------------------------
Check ==
  \/ Begin \/ GetPublicIp \/ GetPublicIpFails \/ Resolve \/ ResolveFallback
  \/ Differ \/ UpToDate \/ Notify \/ Update \/ UpdateFails

Next ==
  \/ \E a \in Addrs : ChangeAddress(a) \/ ArriveLate(a)
  \/ Expire
  \/ OthersResolve
  \/ Check

\* The loop runs and its calls end by their timeouts; the services answer
\* again and again; answers expire and late updates are not late for ever.
Spec ==
  /\ Init /\ [][Next]_vars
  /\ WF_vars(Check)
  /\ SF_vars(GetPublicIp) /\ SF_vars(Resolve) /\ SF_vars(Update)
  /\ WF_vars(Expire)
  /\ \A a \in Addrs : WF_vars(ArriveLate(a))

-----------------------------------------------------------------------------
\* Types, and what is true of the strings between two steps of a check: there is
\* a public address from get_public_ip on, nothing before it, and only a
\* difference leads to a notification and an update.
TypeOK ==
  /\ proxied \in BOOLEAN
  /\ public \in Addrs /\ record \in Addrs
  /\ changes \in 0..MaxChanges
  /\ cached \in Addrs \cup {ProxyAddr, NoAddr}
  /\ late \subseteq Addrs /\ during \subseteq Addrs
  /\ pc \in {"sleep", "ip", "resolve", "compare", "notify", "update"}
  /\ public_ip \in IF pc \in {"sleep", "ip"} THEN {NoAddr} ELSE Addrs
  /\ current_ip \in Addrs \cup {ProxyAddr, NoAddr}
  /\ pc \in {"sleep", "ip", "resolve"} => current_ip = NoAddr
  /\ pc \in {"notify", "update"} => current_ip # public_ip

\* The update of a check writes no address but one that was public while the
\* check ran, never what a resolver or a cache said.  (An update that was sent
\* by an earlier check and arrives late may still write an older one.)
WritesFreshAddress ==
  [][pc = "update" /\ pc' = "sleep" => record' \in {record} \cup during]_vars

\* Once the public address stays as it is, the record comes to hold it and keeps
\* it, with a stale cache, failing calls, late updates and a proxied record.
Converges == <>[](record = public)
=============================================================================
