------------------------------- MODULE MCAcl --------------------------------
EXTENDS SyncdAcl

Rule(match, action, police) == [match |-> match, action |-> action, police |-> police]
FirstList == [family |-> "ipv4",
              rules |-> (10 :> Rule({"ip"}, "forward", 1)) @@ (20 :> Rule({"dhcp"}, "forward", 1))]
MacList == [family |-> "mac", rules |-> (20 :> Rule({"arp"}, "trap", 0))]
MCAclPrograms ==
    { [family |-> "ipv4",
       rules |-> (10 :> Rule({"ip"}, "copy", 0)) @@ (20 :> Rule({"dhcp"}, "forward", 2))],
      MacList }
Unbound == [t \in AclTargets \X AclStages |-> NoAcl]
Redirect(match, action, ipv4) == <<[match |-> match, action |-> action, ipv4 |-> ipv4]>>
Unredirected == [p \in {"p1", "p2"} |-> <<>>]
\* A redirect of ARP on p1 suits every list, one of DHCP on p2 only IPv4 lists.
ArpRedirect == [Unredirected EXCEPT !["p1"] = Redirect({"arp"}, "trap", FALSE)]
DhcpRedirect == [Unredirected EXCEPT !["p2"] = Redirect({"dhcp"}, "trap", TRUE)]
MCRedirects == {Unredirected, ArpRedirect, DhcpRedirect}

\* Nothing is bound; or the IPv4 list is bound to the Port-Channel; or a MAC list
\* may be bound to it, which p1 takes and p2 refuses.
MCAclStarts ==
    { [acls |-> [n \in AclNames |-> FirstList], members |-> {"p1"}, bindings |-> b,
       redirects |-> Unredirected] :
        b \in {Unbound, [Unbound EXCEPT ![<<"po", "ingress">>] = "a"]} }
    \cup { [acls |-> [n \in AclNames |-> MacList], members |-> {"p1", "p2"}, bindings |-> Unbound,
            redirects |-> DhcpRedirect] }
=============================================================================
