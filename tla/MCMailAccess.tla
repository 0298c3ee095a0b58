---------------------------- MODULE MCMailAccess ----------------------------
(***************************************************************************)
(* Two mailboxes, one with two messages, and two connections of each       *)
(* protocol, of which only so many are used at once (MCCases).             *)
(***************************************************************************)
EXTENDS MailAccess, TLC

CONSTANTS m1, m2, m3, ann, bob, p1, p2, i1, i2

MCMsg == {m1, m2, m3}
MCOneMsg == {m1}
MCUser == {ann, bob}
MCOneUser == {ann}
MCOwner == [m \in MCMsg |-> IF m = m3 THEN bob ELSE ann]
MCOneOwner == [m \in MCOneMsg |-> ann]
MCPop == {p1, p2}
MCImap == {i1, i2}
MCOneImap == {i1}
MCNone == {}

Used == {c \in Pop : name[c] # Nobody} \cup {c \in Imap : iname[c] # Nobody}
Ever(ms) == Cardinality({m \in ms : row[m] # "none"})

\* One POP3 connection and all the mail.
Pop3Only == /\ Used \subseteq Pop /\ Cardinality(Used) <= 1
            /\ abandoned = {} /\ undone = {} /\ seen = {}
            /\ \A m \in Msg : row[m] # "marked"

\* One IMAP connection and a message in each mailbox.
ImapOnly == /\ Used \subseteq Imap /\ Cardinality(Used) <= 1
            /\ misnumbered = {} /\ Ever({m1, m2}) <= 1

\* All the connections at one message of one mailbox.
Crowd == /\ Ever({m1, m2}) <= 1 /\ row[m3] = "none"
         /\ \A p \in Pop : name[p] # bob
         /\ \A i \in Imap : iname[i] # bob

MCCases == Pop3Only \/ ImapOnly \/ Crowd

\* Sound: no definition tells these messages or these connections apart.
Sym == {f @@ g @@ h : f \in Permutations({m1, m2}), g \in Permutations(MCPop),
                      h \in Permutations(MCImap)}
=============================================================================
