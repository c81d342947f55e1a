----------------------------- MODULE MCServing -----------------------------
(***************************************************************************)
(* Instances of Serving for TLC.                                           *)
(***************************************************************************)
EXTENDS Serving, TLC

Plain == [port |-> 6443, required |-> FALSE, command |-> FALSE, listener |-> FALSE,
          conn |-> FALSE, share |-> FALSE, files |-> "none", dir |-> FALSE,
          pairName |-> FALSE, generated |-> FALSE, pregenerated |-> FALSE, tls |-> "good"]

InDir == [Plain EXCEPT !.dir = TRUE, !.pairName = TRUE]

(* Started on a port of its own, or through a ConnProvider. *)
DirOnly == {InDir, [InDir EXCEPT !.port = 6444], [InDir EXCEPT !.conn = TRUE]}

(* Every way to listen, with a certificate in memory. *)
Ports == {[Plain EXCEPT !.port = p, !.required = q, !.command = c, !.conn = n, !.listener = l] :
            p \in {-1, 0, 443, 65536}, q \in BOOLEAN, c \in BOOLEAN, n \in BOOLEAN,
            l \in BOOLEAN}

(* Every way to come by a certificate, or not to. *)
Certs == {[Plain EXCEPT !.command = c, !.files = f, !.dir = d, !.pairName = n, !.generated = g,
                        !.pregenerated = p] :
            c \in BOOLEAN, f \in {"none", "pair", "unusable"}, d \in BOOLEAN, n \in BOOLEAN,
            g \in BOOLEAN, p \in BOOLEAN}

Tls == {[InDir EXCEPT !.tls = t] : t \in {"unknown", "insecure"}}

Everything == Ports \cup Certs \cup Tls \cup DirOnly

(* Crashes, and more than two starts, are looked at for the servers that share the
   certificate directory. *)
ManyStartsInDir ==
  starts > 2 \/ crashes > 0 => \A s \in Servers : opt[s] \in DirOnly \cup {Nil}

OwnListener == {[Plain EXCEPT !.port = 0, !.listener = TRUE]}

Sharing == {[Plain EXCEPT !.share = TRUE]}

Disagreements == DirOnly \cup OwnListener \cup Sharing

ServerSymmetry == Permutations(Servers)
=============================================================================
