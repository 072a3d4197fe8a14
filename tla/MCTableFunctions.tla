-------------------------- MODULE MCTableFunctions --------------------------
(* Small instances of TableFunctions for TLC. *)
EXTENDS TableFunctions

\* One reading per one-row function but two of memory; disks and networks
\* around the chunk size 2: none, one, exactly one chunk, two, two and a bit.
MCSamples ==
  [f \in FunctionName |->
     CASE f = "sys_memory_info"  -> {<<0>>, <<7>>}
       [] f = "sys_cpu_info"     -> {<<4>>, <<2>>}
       [] f = "sys_disk_info"    -> {<<>>, <<9, 5>>, <<8, 4, 6, 3, 9>>}
       [] f = "sys_network_info" -> {<<1>>, <<1, 2, 1, 3>>}
       [] f = "sys_os_info"      -> {<<5>>, <<6>>}]
=============================================================================
