----------------------------- MODULE MCNetinspect ----------------------------
(* Netinspect for TLC: lines of all kinds, in calls of up to two of them and a
   few longer ones. *)
EXTENDS Netinspect

Row(fields, proto, state, local, localPort, remote, process) ==
  [fields |-> fields, proto |-> proto, state |-> state, local |-> local, localPort |-> localPort,
   remote |-> remote, process |-> process]

Lan == <<"v4", 10, 0>>
Outside == <<"v4", 8, 8>>
LinkLocal == <<"v4", 169, 254>>

Short == Row(6, "Unknown", "Unknown", Star, 0, Star, "cron")
Ssh4 == Row(8, "Tcp", "Listen", Star, 22, Star, "sshd")
Ssh6 == Row(8, "Tcp6", "Listen", V6Any, 22, Star, "sshd")
Dns == Row(7, "Udp", "Unknown", Lan, 53, Star, "named")
Backdoor == Row(8, "Tcp", "Listen", V4Any, 12345, Star, "nc")
Stateless == Row(7, "Tcp", "Unknown", V4Any, 12345, Star, "nc")
Local == Row(8, "Tcp", "Listen", Lan, 25, Star, "sendmail")
HighPort == Row(8, "Tcp", "Listen", Star, 20000, Star, "java")
Login == Row(8, "Tcp", "Established", Lan, 22, Outside, "sshd")
Upload == Row(8, "Tcp", "Established", Lan, 50000, Outside, "curl")
Upload6 == Row(8, "Tcp6", "Established", <<"v6", "fd">>, 50001, <<"v6", "2001:">>, "curl")
Nearby == Row(8, "Tcp", "Established", LinkLocal, 50002, LinkLocal, "curl")

MCLines == {Short, Ssh4, Ssh6, Dns, Backdoor, Stateless, Local, HighPort, Login, Upload, Upload6,
            Nearby}

MCOutputs ==
  {Nothing} \cup UNION {[1 .. n -> MCLines] : n \in 0 .. 2}
    \cup {<<Dns, Login, Ssh4>>, <<HighPort, Upload, Backdoor>>, <<Upload, Nearby, Upload6>>,
         <<Local, Dns, Login, Upload>>}
=============================================================================
