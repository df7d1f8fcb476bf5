------------------------------- MODULE Firewall -------------------------------
(***************************************************************************)
(* The SIP firewall: firewall.service.ts, for one address that may be      *)
(* blocked (a protected or malformed one returns before any state).  A row *)
(* of blocked_ips and the rule on the host, an iptables DROP or a fail2ban *)
(* ban, are changed in separate awaits by log events and by requests.      *)
(***************************************************************************)
EXTENDS Naturals

CONSTANTS
  FwRequests,  \* handlers that may run at the same time
  Threshold,   \* failed attempts that block the address
  MaxRules     \* bound on duplicate iptables rules

Modes == {"iptables", "fail2ban"}

VARIABLES
  ipRow,      \* "none", "blocked", "expired", "white": the row of the address
  rules,      \* per mode, how often the host drops the address
  attempts,   \* the failed attempts remembered in the window
  fwMode,     \* enforcement_mode of firewall_config
  fwPc, fwConfig,  \* per handler: where it stands, [mode, log]: the
                   \* mode it read, and whether it handles a log event
  enforceFailed    \* a rule could not be set since the row was written

fwVars == <<ipRow, rules, attempts, fwMode, fwPc, fwConfig, enforceFailed>>

\* Of a handler that has returned nothing is kept.
FwReturned == [mode |-> "iptables", log |-> FALSE]

FirewallInit ==
  /\ ipRow = "none" /\ attempts = 0 /\ fwMode \in Modes
  /\ rules = [m \in Modes |-> 0]
  /\ fwPc = [r \in FwRequests |-> "idle"]
  /\ fwConfig = [r \in FwRequests |-> FwReturned]
  /\ enforceFailed = FALSE

\* The kinds of event a line of the security log may report.
parseSecurityLog ==
  {"failed_registration", "auth_failure", "invite_flood", "allowed_registration"}

FwStep(r, from, to) == fwPc[r] = from /\ fwPc' = [fwPc EXCEPT ![r] = to]

FwReturns(r) == fwConfig' = [fwConfig EXCEPT ![r] = FwReturned]

\* A line is read from the log; an allowed registration, and any event of a
\* whitelisted address, is only recorded.
processLogEvent(r) ==
  /\ \E kind \in parseSecurityLog : kind # "allowed_registration"
  /\ ipRow # "white"
  /\ FwStep(r, "idle", "count")
  /\ UNCHANGED <<ipRow, rules, attempts, fwMode, fwConfig, enforceFailed>>

\* After the configuration has been read the attempt is added to those in
\* the window, some of which may have left it.
CountAttempt(r) ==
  /\ \E kept \in 0..attempts :
       LET next == kept + 1
       IN /\ attempts' = IF next > Threshold THEN Threshold ELSE next
          /\ FwStep(r, "count", IF next >= Threshold THEN "block" ELSE "idle")
          /\ fwConfig' = [fwConfig EXCEPT ![r] =
                 IF next >= Threshold THEN [mode |-> fwMode, log |-> TRUE] ELSE FwReturned]
  /\ UNCHANGED <<ipRow, rules, fwMode, enforceFailed>>

manualBlock(r) ==
  /\ FwStep(r, "idle", "block")
  /\ fwConfig' = [fwConfig EXCEPT ![r] = [mode |-> fwMode, log |-> FALSE]]
  /\ UNCHANGED <<ipRow, rules, attempts, fwMode, enforceFailed>>

\* blockIp: the whitelist is read, the row written, then the rule set.
blockIp(r) ==
  /\ FwStep(r, "block", IF ipRow = "white" THEN "blocked" ELSE "insert")
  /\ UNCHANGED <<ipRow, rules, attempts, fwMode, fwConfig, enforceFailed>>

InsertBlock(r) ==
  /\ FwStep(r, "insert", "enforce")
  /\ ipRow' = "blocked" /\ enforceFailed' = FALSE
  /\ UNCHANGED <<rules, attempts, fwMode, fwConfig>>

\* fail2ban bans an address once; iptables takes the rule again.  A command
\* that fails rejects the request and leaves the row.
applyEnforcement(r) ==
  /\ \/ /\ FwStep(r, "enforce", "blocked")
        /\ LET m == fwConfig[r].mode
           IN /\ rules[m] < MaxRules
              /\ rules' = [rules EXCEPT ![m] = IF m = "fail2ban" THEN 1 ELSE @ + 1]
        /\ UNCHANGED <<enforceFailed, fwConfig>>
     \/ /\ FwStep(r, "enforce", "idle")
        /\ enforceFailed' = TRUE /\ FwReturns(r)
        /\ UNCHANGED rules
  /\ UNCHANGED <<ipRow, attempts, fwMode>>

\* The event is recorded; a log event forgets the attempts, those counted
\* meanwhile too.
Blocked(r) ==
  /\ FwStep(r, "blocked", "idle")
  /\ attempts' = IF fwConfig[r].log THEN 0 ELSE attempts
  /\ FwReturns(r)
  /\ UNCHANGED <<ipRow, rules, fwMode, enforceFailed>>

\* The rule of the mode configured now; a failure is only logged.
removeEnforcement(r) ==
  /\ FwStep(r, "unblock", "delete")
  /\ rules' = [rules EXCEPT ![fwMode] = IF @ > 0 THEN @ - 1 ELSE 0]
  /\ UNCHANGED <<ipRow, attempts, fwMode, fwConfig, enforceFailed>>

DeleteRow(r) ==
  /\ FwStep(r, "delete", "idle")
  /\ ipRow' = IF ipRow = "white" THEN "white" ELSE "none"
  /\ enforceFailed' = FALSE
  /\ UNCHANGED <<rules, attempts, fwMode, fwConfig>>

\* Faulty variant: the row goes first
unblockRowFirst(r) ==
  \/ /\ FwStep(r, "idle", "unblock")
     /\ ipRow' = IF ipRow = "white" THEN "white" ELSE "none"
     /\ UNCHANGED <<rules, attempts, fwMode, fwConfig, enforceFailed>>
  \/ /\ FwStep(r, "unblock", "idle")
     /\ rules' = [rules EXCEPT ![fwMode] = IF @ > 0 THEN @ - 1 ELSE 0]
     /\ UNCHANGED <<ipRow, attempts, fwMode, fwConfig, enforceFailed>>

unblock(r) ==
  \/ /\ FwStep(r, "idle", "unblock")
     /\ UNCHANGED <<ipRow, rules, attempts, fwMode, fwConfig, enforceFailed>>
  \/ removeEnforcement(r)
  \/ DeleteRow(r)

\* Whitelisting changes the row and leaves the rule.
addWhitelist ==
  /\ ipRow # "white" /\ ipRow' = "white"
  /\ UNCHANGED <<rules, attempts, fwMode, fwPc, fwConfig, enforceFailed>>

removeWhitelist ==
  /\ ipRow = "white" /\ ipRow' = "none"
  /\ UNCHANGED <<rules, attempts, fwMode, fwPc, fwConfig, enforceFailed>>

\* The block is no longer listed; nothing removes its rule.
BlockExpires ==
  /\ ipRow = "blocked" /\ ipRow' = "expired"
  /\ UNCHANGED <<rules, attempts, fwMode, fwPc, fwConfig, enforceFailed>>

updateFirewallConfig ==
  /\ \E m \in Modes \ {fwMode} : fwMode' = m
  /\ UNCHANGED <<ipRow, rules, attempts, fwPc, fwConfig, enforceFailed>>

FirewallNext ==
  \/ \E r \in FwRequests :
       \/ processLogEvent(r) \/ CountAttempt(r) \/ manualBlock(r) \/ blockIp(r)
       \/ InsertBlock(r) \/ applyEnforcement(r) \/ Blocked(r) \/ unblock(r)
  \/ addWhitelist \/ removeWhitelist \/ BlockExpires \/ updateFirewallConfig

\* An address listed as blocked is dropped by the host once the handlers
\* that block or unblock it have finished, unless setting the rule failed:
\* a block writes row then rule, an unblock removes rule then row.
BlockedIsEnforced ==
  ipRow = "blocked" /\ ~enforceFailed /\ (\A r \in FwRequests : fwPc[r] = "idle")
    => \E m \in Modes : rules[m] > 0
===============================================================================
