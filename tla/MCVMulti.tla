------------------------------ MODULE MCVMulti ------------------------------
(* Small instances of VMulti: the packets HIDCLASS sends.                  *)
EXTENDS VMulti, TLC

MCSizeOf ==
    [s \in Sizes |-> CASE s = "ControlHeader" -> 1 [] s = "HidDescriptor" -> 2
                       [] s = "MaxCountReport" -> 1 [] OTHER -> 2]

Blank == [ioctl |-> "ACTIVATE_DEVICE", xferFits |-> TRUE, userBuffer |-> TRUE,
          reportId |-> "CONTROL", reportBufferLen |-> 3, reportLength |-> 0,
          mode |-> MouseMode, stringId |-> "UNKNOWN", outputLen |-> 0]

ReadOf(n) == [Blank EXCEPT !.ioctl = "READ_REPORT", !.outputLen = n]
WriteOf(n) == [Blank EXCEPT !.ioctl = "WRITE_REPORT", !.reportLength = n]
SetMode(m) == [Blank EXCEPT !.ioctl = "SET_FEATURE", !.reportId = "FEATURE",
                            !.reportBufferLen = MCSizeOf["FeatureReport"], !.mode = m]
GetMode == [Blank EXCEPT !.ioctl = "GET_FEATURE", !.reportId = "FEATURE",
                         !.reportBufferLen = MCSizeOf["FeatureReport"]]

\* Reads of HIDCLASS's own size (2), the short read an application's
\* HidD_GetInputReport leads to (1), and reports of both sizes.
MCMatching == {ReadOf(1), ReadOf(2), WriteOf(1), WriteOf(2)}

MCAny == [r \in Requests |-> Packets]

\* Features of every mode, in a report of the right length or in one that is refused.
MCFeatures ==
    {GetMode} \cup {SetMode(m) : m \in Modes}
    \cup {[SetMode(m) EXCEPT !.reportBufferLen = 3] : m \in Modes \ {MouseMode}}

\* One packet per check a handler makes.
MCChecks ==
    MCFeatures \cup
    {ReadOf(0), ReadOf(2), WriteOf(0), WriteOf(2), WriteOf(3),
     [WriteOf(1) EXCEPT !.xferFits = FALSE],
     [WriteOf(1) EXCEPT !.userBuffer = FALSE],
     [WriteOf(1) EXCEPT !.reportId = "OTHER"],
     [GetMode EXCEPT !.xferFits = FALSE],
     [GetMode EXCEPT !.reportId = "MTOUCH", !.reportBufferLen = 1],
     Blank,
     [Blank EXCEPT !.ioctl = "DEACTIVATE_DEVICE"],
     [Blank EXCEPT !.ioctl = "GET_STRING"],
     [Blank EXCEPT !.ioctl = "GET_STRING", !.stringId = "IPRODUCT", !.outputLen = 3],
     [Blank EXCEPT !.ioctl = "GET_DEVICE_DESCRIPTOR", !.outputLen = 1],
     [Blank EXCEPT !.ioctl = "GET_REPORT_DESCRIPTOR", !.outputLen = 2],
     [Blank EXCEPT !.ioctl = "GET_DEVICE_ATTRIBUTES", !.outputLen = 2]}

\* Every two checks meet, and one more request of a feature with each of them.
FeatureRequests == {"f"}
MCMayCarry == [r \in Requests |-> IF r \in FeatureRequests THEN MCFeatures ELSE Packets]

RequestSymmetry == Permutations(Requests)
=============================================================================
