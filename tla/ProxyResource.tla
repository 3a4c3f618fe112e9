--------------------------- MODULE ProxyResource ----------------------------
(***************************************************************************)
(* hyperv_port_proxy: internal/resources/port_proxy with                   *)
(* internal/hyperv/port_proxy.go and internal/scripts/port_proxy.  The     *)
(* listen address and port and the firewall rule's name are the            *)
(* resource's own; `to' is the connect address and port.                   *)
(***************************************************************************)
EXTENDS NetworkHost

CONSTANT Targets

ProxySchema == [forces |-> {}, sticky |-> {"fw"}, sets |-> NoSets]

\* planListening: a rule is always planned to be listening.
WellFormedProxy(c) ==
    /\ DOMAIN c \ {"fw"} = {"to", "listening"}
    /\ c.to \in Targets
    /\ c.listening
    /\ "fw" \in DOMAIN c => c.fw \in FirewallRules

ASSUME ProxyAssumption == \A p \in Proxies : \A c \in Configs[p] : WellFormedProxy(c)

ProxyType == [to : Targets, listening : BOOLEAN]

HasProxy(h, p) == h.proxy[p] # Null

Forwarding(h, p, to, listening) ==
    [h EXCEPT !.proxy[p] = [to |-> to, listening |-> listening]]

Unforwarded(h, p) == [h EXCEPT !.proxy[p] = Null]

-----------------------------------------------------------------------------
(* The scripts: what they need, what they do, where they may stop *)

\* A rule that is there, and a port the system has reserved, are refused.
NewProxyAccepts(h, p) == ~HasProxy(h, p) /\ p \notin h.excluded

NewProxy(h, p, in) == WithRule(Forwarding(h, p, in.to, TRUE), p, Resolve(in))

\* Also what is left when the rollback fails; it removes all rules of the name.
NewProxyPartly(h, p, in) ==
    IF NewProxyAccepts(h, p)
      THEN {h, Forwarding(h, p, in.to, FALSE), Forwarding(h, p, in.to, TRUE),
            NewProxy(h, p, in), WithRule(h, p, Resolve(in))} \cup
           (IF Resolve(in).on THEN {WithoutRules(h, p)} ELSE {})
      ELSE {h}

\* A rule without a listener is deleted and added again.
CanListen(h, p) == h.proxy[p].listening \/ p \notin h.excluded

SetProxy(h, p, in) == Synced(Forwarding(h, p, in.to, TRUE), p, Resolve(in))

SetProxyPartly(h, p, in) ==
    IF ~HasProxy(h, p) THEN {h}
      ELSE IF h.proxy[p].listening
        THEN {h, Forwarding(h, p, in.to, TRUE), SetProxy(h, p, in)}
        ELSE {h, Unforwarded(h, p), Forwarding(h, p, in.to, FALSE)} \cup
             (IF CanListen(h, p)
                THEN {Forwarding(h, p, in.to, TRUE), SetProxy(h, p, in)} ELSE {})

RemoveProxy(h, p) == WithoutRules(Unforwarded(h, p), p)

RemoveProxyPartly(h, p) == {h, Unforwarded(h, p), RemoveProxy(h, p)}

\* modelFromPortProxy
ReadProxy(h, p) ==
    {[to |-> h.proxy[p].to, listening |-> h.proxy[p].listening, fw |-> fw] :
         fw \in FirewallStates(h, p)}

-----------------------------------------------------------------------------
(* The handlers *)

ProxyCall(do, p) == [do |-> do, of |-> p, with |-> plan[p]]

CreateProxy(p) ==
    /\ at[p] = "create" /\ Leave(p)
    /\ \/ /\ NewProxyAccepts(host, p)
          /\ Ran(NewProxy(host, p, plan[p]))
          /\ \E s \in ReadProxy(host', p) : Return(p, s)
       \/ /\ ~NewProxyAccepts(host, p)
          /\ Ran(host) /\ Fail(p)
       \/ /\ CallFails(ProxyCall("new", p), NewProxyPartly(host, p, plan[p]))
          /\ Fail(p)

ReadPortProxy(p) ==
    /\ at[p] = "read" /\ Leave(p)
    /\ \/ /\ Ran(host)
          /\ \E s \in IF HasProxy(host, p) THEN ReadProxy(host, p) ELSE {NoState} :
                 Refreshed(p, s)
       \/ ReadFails /\ Fail(p)

\* Without a listener in the end, the error comes after the rule was replaced.
UpdateProxy(p) ==
    /\ at[p] = "update" /\ Leave(p)
    /\ \/ /\ HasProxy(host, p) /\ CanListen(host, p)
          /\ Ran(SetProxy(host, p, plan[p]))
          /\ \E s \in ReadProxy(host', p) : Return(p, s)
       \/ /\ HasProxy(host, p) /\ ~CanListen(host, p)
          /\ Ran(Forwarding(host, p, plan[p].to, FALSE)) /\ Fail(p)
       \/ /\ ~HasProxy(host, p)
          /\ Ran(host) /\ Fail(p)
       \/ /\ CallFails(ProxyCall("set", p), SetProxyPartly(host, p, plan[p]))
          /\ Fail(p)

DeleteProxy(p) ==
    /\ at[p] = "delete" /\ Leave(p)
    /\ \/ Ran(RemoveProxy(host, p)) /\ Deleted(p)
       \/ CallFails(ProxyCall("remove", p), RemoveProxyPartly(host, p)) /\ Fail(p)

\* ImportState has the listener and the rule's name; Read does the rest.
ImportProxy(p) ==
    /\ HasProxy(host, p)
    /\ \E s \in ReadProxy(host, p) : Import(p, s)
    /\ UNCHANGED inside

ProxyStep(p) == CreateProxy(p) \/ ReadPortProxy(p) \/ UpdateProxy(p) \/ DeleteProxy(p)

ProxyPartly(h, c) ==
    CASE c.do = "new" -> NewProxyPartly(h, c.of, c.with)
      [] c.do = "set" -> SetProxyPartly(h, c.of, c.with)
      [] c.do = "remove" -> RemoveProxyPartly(h, c.of)

=============================================================================
