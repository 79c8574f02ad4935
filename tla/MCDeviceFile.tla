---------------------------- MODULE MCDeviceFile ----------------------------
(* Two devices, one of them a virtual function, and two files.              *)
EXTENDS DeviceFile

MCDevices == {1, 2}
MCVirtual == {2}
MCFaults == {"class", "chrdev", "cdev", "driver", "devbk", "notif_q_status",
             "pipe_status", "regions", "bar0", "bar2", "uio", "tree", "kmem"}
MCHandles == {1, 2}
MCKmemUsers == {1}
MCSizes == {0, 1}
=============================================================================
