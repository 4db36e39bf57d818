----------------------------- MODULE Timestamp -----------------------------
(***************************************************************************)
(* The event numbers of a Feather-Trace record (include/timestamp.h) that  *)
(* the tools tell apart, and the way they are classified.  Events come in  *)
(* START/END pairs of an even and the following odd number; from           *)
(* SINGLE_RECORDS_RANGE on, one record is a complete measurement.          *)
(***************************************************************************)
EXTENDS Integers

UINT8_MAX == 255

TSK_BE == 0
TSK_RT == 1
TSK_UNKNOWN == 2

TS_SYSCALL_IN_START == 10
TS_SYSCALL_IN_END   == 11

SUSPENSION_RANGE == 30

TS_LOCK_START   == 30
TS_LOCK_END     == 31
TS_LOCK_SUSPEND == 38
TS_LOCK_RESUME  == 39

PID_RECORDS_RANGE == 99

TS_SCHED_START        == 100
TS_SCHED_END          == 101
TS_CXS_START          == 104
TS_CXS_END            == 105
TS_RELEASE_START      == 106
TS_RELEASE_END        == 107
TS_SEND_RESCHED_START == 190
TS_SEND_RESCHED_END   == 191

SINGLE_RECORDS_RANGE == 200

TS_RELEASE_LATENCY == 208
=============================================================================
