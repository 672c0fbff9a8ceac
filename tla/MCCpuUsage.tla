---------------------------- MODULE MCCpuUsage ----------------------------
EXTENDS CpuUsage

=============================================================================
