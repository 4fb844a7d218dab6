----------------------------- MODULE MCCpuLoop -----------------------------
(* Small firmware images: the vector table takes the first 64 bytes of     *)
(* flash, then come the thread code, the SVC handler and the SysTick       *)
(* handler.  The thread programs the timer the way elf/main.c does, runs a *)
(* body and loops.                                                         *)
EXTENDS CpuLoop, TLC

Op(op, arg) == [op |-> op, arg |-> arg, base |-> "scratch"]
Saved(op, arg) == [op |-> op, arg |-> arg, base |-> "saved"]

Place(address, code) ==
  [a \in {address + 2 * (k - 1) : k \in 1 .. Len(code)} |->
     code[(a - address) \div 2 + 1]]

(* Program the timer through registers r4-r7 that hold its addresses. *)
Setup(reload, control) ==
  << Op("mov", 0), Saved("strRVR", reload), Saved("strCVR", 0),
     Saved("strCSR", control) >>

Bodies == << << Alu >>,
            << Op("svc", 0), Alu >>,
            << Op("push", 2), Op("svc", 0), Op("pop", 2) >>,
            << Op("pushlr", 1), Op("subaddsp", -8), Op("pop", 1) >>,
            << Op("bl", 2), Alu, Op("svc", 0), Alu >>,
            << Op("bcc", 0), Alu, Op("svc", 0) >>,
            << Op("wide", 0), Alu >>,
            << Op("bl", 0), Alu, Op("wide", 0), Alu >>,
            << Op("ldr", 0), Op("mov", 0), Op("strUART", 1) >>,
            << Saved("strCVR", 0), Alu, Saved("strCSR", 1) >>,
            << Op("push", 5), Saved("strRVR", 1) >>,
            << Op("bcc", 60), Op("bcc", -90) >> >>

Handlers == << << Op("b", -4) >>,
              << Alu, Op("push", 1), Op("b", -8) >>,
              << Op("svc", 0), Op("bl", -8), Alu >> >>

Thread(reload, control, body) ==
  Setup(reload, control) \o body \o << Op("b", -2 * Len(body) - 4) >>

ThreadAt == 64
SvcAt == 88
SysTickAt == 96

Firmwares == [top : {100, 512}, reload : 0 .. 4, control : {1, 7},
              body : DOMAIN Bodies, handler : DOMAIN Handlers]

MCImages ==
  [ f \in Firmwares |->
      [sp     |-> f.top,
       entry  |-> ThreadAt + 1,
       vector |-> SVCALL :> SvcAt + 1 @@ SYSTICK :> SysTickAt + 1,
       code   |-> Place(ThreadAt, Thread(f.reload, f.control, Bodies[f.body]))
                  @@ Place(SvcAt, << Alu, Op("b", -6) >>)
                  @@ Place(SysTickAt, Handlers[f.handler])] ]
=============================================================================
