# TLA+ models of pilota's unsafe Thrift binary protocol

This directory checks `src/pilota/src/thrift/binary_unsafe.rs` with TLC.
That file is the Thrift binary codec that pilota uses on its hot path. Its
writers and its zero-copy reader do no bounds checks. Their memory safety
rests on invariants that no single function can check:

- the length pass and the write pass must agree, byte for byte;
- the raw window `buf` must be re-derived after every splice or split;
- every store must go to the right base address.

The models state those invariants and check them over every short call
sequence that the generated code can make.

## The system

`TBinaryProtocol<T>` (lines 18-47) holds these fields:

- `trans`, the transport;
- `buf`, a `&'static mut [u8]` window that the caller carved out of it;
- `index`, the cursor;
- `zero_copy`, the flag;
- `zero_copy_len`, an accumulator.

The file implements five parts (spec.md 2):

| Part | Lines | What it does |
|---|---|---|
| length calculator `TLengthProtocol` | 61-201 | Each `write_<x>_len` returns the bytes that `write_<x>` will store. Bytes and faststr payloads of at least `ZERO_COPY_THRESHOLD` (with `zero_copy`) are added to `zero_copy_len`. `reset()` clears the accumulator. |
| contiguous writer, `TOutputProtocol` for `&mut BytesMut` | 203-454 | Unchecked stores into one flat reserved region. Every payload is copied. |
| chained writer, `TOutputProtocol` for `&mut LinkedBytes` | 456-740 | The same stores, plus a zero-copy splice for large bytes and faststr: `advance_mut(index)`, `index = 0`, `insert` of the payload as a chain segment, and `buf` re-derived from `bytes_mut()`. |
| zero-copy reader, `TInputProtocol` for `&mut BytesMut` | 955-1204 | Unchecked loads. `read_bytes` and `read_faststr` detach payloads with `advance` and `split_to`, then re-derive `buf`. |
| streaming reader, `TAsyncInputProtocol` | 744-953 | Reads from an `AsyncRead`. Every read suspends and may fail. Payloads are always copied. |

The version check of `read_message_begin` is shared by both readers (lines
958-982 and 752-776).

These parts interact as follows. The caller first runs the length pass over
the generated call sequence, then reserves memory. For a LinkedBytes it
reserves `total - zero_copy_len`, since spliced bytes are never copied. For a
BytesMut it reserves `total` (spec.md 4.2). Then it builds the protocol over
the reservation and runs the same calls through the writer. A reader consumes
what a writer produced.

The following are not in this repository and are not modelled:

- the code generator that emits the call sequences;
- the RPC stack that drives the codec;
- the buffer types `BytesMut`, `LinkedBytes` and `AsyncRead`.

## Modules

| Module | Models | State and actions |
|---|---|---|
| `ThriftBinary` | the wire vocabulary (spec.md 3, 6) | No variables. TType and message type codes, `VERSION_1 as i32`, `BE`/`FromBE` (`to_be_bytes`/`from_be_bytes` in two's complement), and `WireOf(c)`, the reference wire image of one encode call. |
| `BinaryLength` | `TLengthProtocol` | Variable `zero_copy_len`. `LenOf(c)` is what `write_<x>_len` returns. `LenCall(c)` is its effect on the accumulator. `Reset` is `reset()`. |
| `RawWindow` | `TBinaryProtocol::new` for writers | A writer record `[mem, tail, buf, index, chain, hw]`. `PutBuf` stores through `self.buf`; `PutTrans` stores through `self.trans`, from the BytesMut's data pointer. A store outside the allocation is lost. `hw` records the highest address any store touched. `Image` is what the transport holds. |
| `ContiguousWriter` | writer for `&mut BytesMut` | One operator per handler, from writer state to writer state. Each handler is composed of the calls it makes: `write_bool` calls `write_i8`, and `write_bytes` calls `write_i32` and then copies. |
| `ChainedWriter` | writer for `&mut LinkedBytes` | The same handlers. `Splice` is the zero-copy branch of `write_bytes` and `write_faststr`. |
| `EncodePass` | the two passes composed | Variables `prog, phase, pc, total, zero_copy_len, w`. The actions are `ResetLen`, `LenStep` (one `write_<x>_len`), `Reserve` (the caller's reservation and `new`), and `WriteStep`. `WriteStep` has one disjunct per handler and dispatches on the constant `Transport`. |
| `MessageVersion` | the header checks of `read_message_begin` | `DecodeHeader(size)`: `size > 0` gives BadVersion; then a nibble outside 1..4 gives InvalidData; then the high half must equal VERSION_1, else BadVersion. The checks are applied in the code's order. `&` on a negative i32 is modelled by floor `%`. |
| `MessageHeader` | a check of `DecodeHeader` | Variables `word, result`. One header word is read with `FromBE` and decoded. |
| `BufferReader` | reader for `&mut BytesMut` | A reader record `[mem, trans, buf, index, detached, hw]`. There is one operator per `read_<x>`, returning `[st, val, err]`. `SplitOff` is `advance; split_to; buf = …`. A length that fails `split_to`'s assertion is `"Panic"`; an unchecked copy with a negative length is `"Undefined"`. |
| `WireInput` | the bytes a decoder receives | No variables. The reference wire image of a call sequence, `Offset` of each call, and the damaged inputs: a bad tag or header byte (`Faults`), or a payload length prefix replaced by `-1` (`LengthFaults`). `Expected(c)` is the value a read must return. |
| `ZeroCopyDecode` | one decode of a received message | Variables `prog, fault, pc, r, out`. The input is the wire image of `prog`, either intact or with one tag or header byte damaged. The decoder calls the matching `read_<x>` for each call and stops at the first error, as `?` does. |
| `AsyncReader` | `TAsyncInputProtocol` for `TAsyncBinaryProtocol<R>` | No variables. One operator per `read_<x>`, from the reader's position and the stream `[data, ending]` to `[pos, val, err]`. `ReadExact` is `read_exact`: `"Pending"` while the bytes are missing on an open stream; on a closed stream the arrived bytes are consumed and the read fails with `"Io"`. A negative length in `read_bytes_vec`/`read_string` is `"Panic"` (`vec![0; len as usize]`). |
| `StreamDecode` | one decode over a live connection | Variables `prog, fault, wire, arrived, ending, pos, pc, out`. `Deliver` (one more byte arrives), `Close` (end of stream or I/O error, at any moment) and `ReadStep` (the decoder task is polled and the next `read_<x>` completes). A suspended read is not a separate state: a read resumed later has the same outcome as one started then. |
| `Codec` | the abstract codec (spec.md 8) | Variables `msg, sent, got`. `Send` puts the next call on the wire. `Recv` returns the next sent call's value, without error. With the constant `Lossy`, `Lose` may end the receive with one I/O error. |
| `RoundTrip` | writer and zero-copy reader composed | `EncodePass`'s variables plus `stage, dpc, fault, r, out`. `Encode` is a step of `EncodePass`; `HandOver` gives the transport's bytes (`Image(w)`) to a fresh reader; `Decode` is a step of `ZeroCopyDecode`. It is shown to implement `Codec` under the mapping `sent = pc - 1` (write phase) and `got` = the reads' results. |
| `StreamRoundTrip` | writer and streaming reader composed | `EncodePass`'s variables plus `StreamDecode`'s. `Encode` is a step of `EncodePass`. `Send` puts the transport's bytes on the connection. `Deliver`, `Close` and `ReadStep` are `StreamDecode`'s. It is shown to implement the lossy `Codec`. |
| `LongPayload` | a payload or collection longer than `i32::MAX` | Variables `len, reader, prefix, out`. A length is the pair `[hi, lo]` for `hi * 2^31 + lo`, because TLC's integers stop at `2^31 - 1`. `Write` stores `BE(4, len as i32)`. `Read` applies the chosen reader's length handling (`split_to`, the unchecked slice, or `vec!`) to the prefix read back. For `read_list_begin`, `read_set_begin` and `read_map_begin` the size is `size as usize` (`AsUsize`), which sign-extends a negative i32. |
| `MCEncodePass`, `MCZeroCopyDecode`, `MCStreamDecode`, `MCRoundTrip`, `MCStreamRoundTrip` | model values | These define the calls and payloads. |

## Runs

| Run | Cfg | Checks | Result |
|---|---|---|---|
| `encode_linked` | `MCEncodePass_linked.cfg` | `StoresWithinReservation`, `WireImageMatches`, `LengthAgreement` | pass, 277,384 states |
| `encode_bytesmut` | `MCEncodePass_bytesmut.cfg` | `StoresWithinReservation`, `WireImageMatches`, `LengthAgreement` | pass, 277,384 states |
| `encode_preamble` | `MCEncodePass_preamble.cfg` | `WireImageMatches` | violation (finding) |
| `message_header` | `MCMessageHeader.cfg` (module `MessageHeader`) | `HeaderDecodeMatchesSpec` | pass, 280 states |
| `decode_zero_copy` | `MCZeroCopyDecode.cfg` | `LoadsWithinBuffer`, `DecodesWhatWasEncoded` | pass, 209,785 states |
| `reader_threshold` | `MCZeroCopyDecode_threshold.cfg` | `CopiesBelowThreshold` | violation (finding) |
| `reader_disabled` | `MCZeroCopyDecode_disabled.cfg` | `DetachOnlyWhenEnabled` | violation (finding) |
| `decode_stream` | `MCStreamDecode.cfg` | `StreamDecodesWhatWasEncoded`, `DecodeTerminates` | pass, 92,850 states |
| `stream_corrupt_length` | `MCStreamDecode_length.cfg` | `NoPanic` | violation (finding) |
| `round_trip` | `MCRoundTrip.cfg` | `ImplementsCodec` | pass, 388,145 states |
| `stream_round_trip` | `MCStreamRoundTrip.cfg` | `ImplementsLossyCodec` | pass, 53,001 states |
| `long_payload` | `LongPayload.cfg` (module `LongPayload`) | `LengthRoundTrips` | violation (two findings) |

What the properties say:

- **StoresWithinReservation.** No store of the write pass, through either
  base, lands beyond the region the caller reserved from the length pass.
  This must hold across splices that move the window.
- **WireImageMatches.** After every handler, the transport (chain segments,
  then the tail up to the cursor) is exactly the wire image of the calls made
  so far. It fails if a splice loses the cursor's bytes, if a stale window is
  written, or if the two bases disagree.
- **LengthAgreement.** When the write pass ends, `total` is the length of the
  wire image and the reservation was used exactly (spec.md 4.1 and 8).
- **HeaderDecodeMatchesSpec.** `read_message_begin` decides each header word
  as spec.md 4.6 states its rules on the unsigned bit pattern.
- **DecodesWhatWasEncoded.** Each read returns the value that was written, or,
  for the damaged call, fails with the expected error kind. A complete decode
  consumes exactly the wire image.
- **LoadsWithinBuffer.** No unchecked load reads past the received bytes.
- **StreamDecodesWhatWasEncoded.** Over a stream that delivers the bytes one
  at a time and may close at any point, each read returns the written value
  and leaves the reader at the next call's bytes, or fails with the damaged
  call's error, or fails with an I/O error. An I/O error happens only when the
  stream closed before the call's bytes all arrived, and it leaves every
  arrived byte consumed. A read never returns a value assembled from a
  partial read.
- **DecodeTerminates.** Every decode ends, once the peer sends the whole
  message it started (or closes).
- **NoPanic.** No read panics, whatever length prefix the peer sends: a
  bad length surfaces as a `DecodeError`, as spec.md 7 says decode
  failures do.
- **ImplementsCodec.** The encode pass through the chained writer, followed by
  the zero-copy decode of the bytes the transport really holds, implements
  `Codec`, liveness included. Each read returns, without error, the value of
  the next call written, and every call is eventually decoded.
- **ImplementsLossyCodec.** The same holds for the streaming reader fed the
  real writer's bytes over a connection that may close, with one exception.
  The decode may instead end with one I/O error, and it returns nothing else
  after it. Every call is decoded unless the connection closes first.
- **LengthRoundTrips.** A payload read back has the length that was
  written, and a collection header read back has the size that was
  declared; otherwise the decode reports a `DecodeError`.

### Findings (the violation runs)

1. `encode_preamble` is a spec gap. The i16, i32, i64 and double stores go
   through `self.trans`, from the BytesMut's start, while everything else goes
   through `buf`. The safety comment of `new` only asks that `buf` point into
   `trans`, so a caller that has already put a frame-length placeholder in the
   BytesMut sees its first `write_i16` (or i32, i64, double; TLC's trace
   is an i16, lines 582-585) land on that placeholder.
2. `reader_threshold`: `read_bytes` (line 1040) always splits, even an empty
   payload. Spec.md 4.4 and 8 say that a payload below the threshold is
   copied.
3. `reader_disabled`: `read_bytes` and `read_faststr` never read `zero_copy`.
   The doc comment of `new` (lines 28-29) says that the flag takes effect for
   a BytesMut input.
4. `stream_corrupt_length`, negative length: a divergence from spec.md 7. `read_string` and
   `read_bytes_vec` (lines 854-856, 838-840) cast the length `as usize` and
   allocate `vec![0; len]`. A negative length panics with a capacity overflow.
   It is not returned as a `DecodeError`.
5. `long_payload` is a divergence from spec.md 8 (round trip for every bytes
   and string value). `write_bytes`, `write_string` and `write_faststr`
   (lines 267, 520, 641, 655) store `b.len() as i32` and return `Ok` for any
   length. A LinkedBytes writer even splices such a payload without copying
   it. For a payload of 2^31 + k bytes, every reader panics (`split_to`,
   `vec!`) or slices out of bounds (`read_string`). For 2^32 + k bytes, the
   prefix is k, and the reader returns a k-byte payload with no error, then
   misparses the rest. The encoder should fail with an `EncodeError` instead.
6. `long_payload` also shows the same fault for collection sizes.
   `write_list_begin`, `write_set_begin` and `write_map_begin` (lines 398,
   409, 423; chained 684, 695, 709) write `identifier.size as i32`, and the
   readers (903, 918, 937; zero-copy 1149, 1161, 1174) return
   `size as usize`. A list of 2^31 elements is read back with size
   2^64 - 2^31, which generated code would try to allocate or loop over. A
   list of 2^32 + k elements is read back with size k. Spec.md 8 says
   decoding a map preserves its declared size. With only the three header
   readers in `Readers`, TLC reports the 2^31 case as the first violation.

### Mutants

Each property of a passing run is killed by a plausible fault in the code it
is about:

- `WriteBytesStrict`: `>` instead of `>=` on the threshold;
- `SpliceNoAdvance`: no `advance_mut(index)` before `insert`;
- `FixedLenSetAsMap`: the set header sized like a map header;
- `WriteFieldBeginWide` and `WriteFieldBeginLE`: the field id stored wrongly;
- `DecodeHeaderNoLegacyCheck`: the `size > 0` test dropped;
- `SplitOffNoAdvance`: `split_to` without `advance(index)`;
- `ReadFieldBeginNoStop`: an id read after Stop (zero-copy reader, and in
  `AsyncReader`, where the over-read waits forever: `DecodeTerminates`);
- `ReadMapBeginSwapped`: the value type read before the key type;
- `SpliceNoAdvance` again, for `ImplementsCodec`: the composed round trip
  returns a wrong value;
- `ReadBytesVecShort`: the payload body read with `read` rather than
  `read_exact`, so a stream that ends early yields a short payload
  (`ImplementsLossyCodec`).

See `mutants` in `PROJECT.json`.

## Bounds, and why they are enough

- **`ZERO_COPY_THRESHOLD = 2`, with payloads `<<>>`, `<<7>>` and `<<7, 9>>`.**
  These cover an empty payload, a payload one below the threshold and one
  exactly at it. The code compares lengths only against the threshold, so
  longer payloads behave like `<<7, 9>>`.
- **`MaxCalls = 3`.** Every call sequence of up to three of about 29 calls is
  checked. That covers a splice followed by a scalar through `buf` and one
  through `trans`, two splices in a row, a message header (which contains a
  splice) followed by anything, and every pair of handlers. The hazards all
  concern what one handler leaves for the next, so they need two or three
  calls.
- **Integer values.** The integers include negative values (`-1`, `-2`, `-3`,
  `-5`), values with more than one significant byte (300, 70000), and 200 for
  `write_byte` (a `u8` above 127). The reader checks the sign handling of
  `from_be_bytes` with these values.
- **`Leftover = {0, 2}`.** This is the `zero_copy_len` a reused protocol may
  carry when the caller calls `reset()`.
- **Header words.** They cover a zero word, words with the top bit clear, the
  high halves 0x8000, 0x8001, 0x8002 and 0xFFFF, every low nibble, and type
  bytes that are valid only in their nibble (0x11, 0x0101, 0xFFF1).

- **`StreamDecode`: `MaxCalls = 2`, one byte per delivery.** Every split of
  the message into chunks and every closing point is covered: bytes arrive
  one at a time, and the stream may close between any two. Two calls cover a
  read that fails mid-prefix, mid-payload and between calls, and a read
  after a completed one.
- **`StreamRoundTrip`: `MaxCalls = 2`.** Three calls take more than five
  minutes (2.8 million states). Two calls still cover a splice followed by a
  scalar, a message header, and a connection closing inside and between
  calls.
- **`LongPayload`: `hi` in 0..2, `lo` in {0, 3}.** These are the lengths lo,
  2^31 + lo (negative prefix) and 2^32 + lo (silently wrapped prefix), read
  by all five payload readers and the three collection headers. They are the only cases the cast distinguishes.
- **`RoundTrip`: `MaxCalls = 3` with the LinkedBytes writer.** These are the
  same bounds as `encode_linked`, so every splice combination checked there
  is also decoded.

## Fairness

- **Sync paths.** `EncodePass` and `ZeroCopyDecode` check safety only. One
  protocol instance runs on one thread, and the synchronous paths never
  suspend (spec.md 5). A pass ends when its call sequence ends, which is why
  the cfgs say `CHECK_DEADLOCK FALSE`.
- **`StreamDecode`.** There is weak fairness on `ReadStep`: the async runtime
  polls a task whose waker fired, and a read that can complete is woken by
  the stream. There is weak fairness on `Deliver`: the peer sends the whole
  message it started. That is what `DecodeTerminates` assumes. `Close` is not fair: a connection need not close. The fairness is written as
  `<>[]Enabled => []<><<step>>_vars`, with each action's enabling condition
  spelled out. That is `WF_vars(A)` for these actions, because their primed
  conjuncts are assignments and each is the only action that changes `pc` or
  `arrived`. Spelling it out saves TLC from evaluating a whole handler to
  decide `ENABLED`.
- **`StreamRoundTrip`.** It combines the two above: the encoder runs to
  completion, and the decode has `StreamDecode`'s fairness.
- **`RoundTrip`.** There is weak fairness on the whole `Next`, in the same
  spelled-out form: the caller and the decoder run to completion, and the RPC
  stack delivers the frame.

## Not modelled, and why

- **Cancellation of a pending streaming read.** Dropping the future of a
  `read_exact` also loses the bytes it consumed. The spec leaves a cancelled
  reader to be dropped, so nothing reuses it.
- **Timeouts around the streaming reader.** They belong to the RPC stack.
  A length prefix larger than what an open peer sends leaves `read_exact`
  (line 857) pending, after `vec!` allocated the claimed size. No reader
  can end that on its own, so no property asks it to; bounding the length
  and the wait is the caller's job.
- **Corrupt length prefixes on the zero-copy path.** Spec.md 1 puts them
  outside the contract, so the zero-copy model damages only tags and headers.
  The streaming reader reads from a peer, and there the model damages length
  prefixes too.
- **UTF-8 validity.** It is deliberately not checked by the code.
- **The `*_end`, `*_struct_*` and `flush` no-ops.** They change no state.
- **`buf_mut`.** It is `unimplemented!()`.

## Plan

Done:

- first sitting: the vocabulary, the length pass, both writers composed with
  it, the header check, and the zero-copy reader;
- second sitting: the streaming reader under chunked delivery and closing,
  with liveness; the round trip through the real writer's bytes, shown to
  refine the abstract `Codec`;
- third sitting: the round trip through the streaming reader, shown to refine
  the lossy `Codec`, and payloads longer than `i32::MAX`;
- fourth sitting: collection sizes longer than `i32::MAX` through the
  `as i32` / `as usize` pair of casts (hazard at line 903).

Left open:

1. **Protocol reuse across messages.** `EncodePass` starts `zero_copy_len`
   in `Leftover`, the values an earlier message on the same instance leaves
   behind, and `ResetLen` is the caller's `reset()`. A model of two whole
   messages would check the same hazard again with a larger state space.
